---- MODULE Spec2Model ----
(***************************************************************************)
(* Model of the ESP dashboard firmware (src/esp_dash_v1.ino): the 'n'      *)
(* frame receiver, the payload decoder, the link-staleness rule, the       *)
(* portal-mode arbiter, the SD recording gate and the cooperative loop     *)
(* (dashLoop / wifiLoop) that drives them.                                 *)
(*                                                                         *)
(* Conventions                                                             *)
(*  - C arrays are 0-based; the payload buffer is a sequence, so           *)
(*    payload[i] of the source is payload[i+1] here (see At).              *)
(*  - float fields are kept as scaled integers: ecu.vbat in tenths of a    *)
(*    volt, ecu.afr in hundredths.                                         *)
(*  - millis() is an unsigned counter; differences are taken modulo        *)
(*    MillisMod (the source's uint32_t, narrowed so values fit).           *)
(*  - ev is the ordered list of externally visible calls made by the last  *)
(*    step (serial, SD, preferences, display); it is history, not state    *)
(*    of the program.                                                      *)
(***************************************************************************)
EXTENDS Integers, Sequences, FiniteSets, TLC

\* ------------------------------------------------------------------------
\* Program constants
\* ------------------------------------------------------------------------
POLL_MS == 100
LINK_STALE_MS == 700
UI_UPDATE_MS == 60
LOG_INTERVAL_MS == 100
SHIFT_FLASH_MS == 180
WIFI_CLIENT_CHECK_MS == 250
SPLASH_DELAY_MS == 4000
WIFI_AP_MAX_CONN == 2
CMD_N == 110
MAX_PAYLOAD == 200
MIN_DECODE_LEN == 40
TEMP_OFFSET == 40
IDX_IAT == 6
IDX_CLT == 7
IDX_VBAT10 == 9
IDX_RPM_L == 14
IDX_ADVANCE == 23
IDX_TPS == 24
IDX_ENGINE == 2
IDX_SPARKBF == 31
AFR_INDEX == 10
AFR_U16_x100 == 0
AFR_U16_x10 == 1
AFR_U8_div10 == 2
DEFAULT_SHIFT_RPM == 6500
DEFAULT_LOG_INDEX == 1
STATUS_UPDATE_MS == 250
RPM_MAX == 8000
INT32_MIN == -2147483647 - 1
\* enum WarnId, and the rows of the settings list after the warning rows
W_AFR == 0
W_VBAT == 1
W_IAT == 2
W_CLT == 3
W_TPS == 4
W_ADV == 5
W_COUNT == 6
\* enum ViewMode
VIEW_RING == 0
VIEW_BAR == 1
\* the colours the shift overlay is painted in
C_BG == "C_BG"
C_RED == "C_RED"
ROW_SHIFT == W_COUNT
ROW_VIEW == W_COUNT + 1
ROW_LOGGING == W_COUNT + 2
SETTINGS_ROW_COUNT == W_COUNT + 3

\* RxState
WAIT_N == "WAIT_N"
WAIT_TYPE == "WAIT_TYPE"
WAIT_LEN == "WAIT_LEN"
READ_PAYLOAD == "READ_PAYLOAD"

\* ------------------------------------------------------------------------
\* Bounds of the model
\* ------------------------------------------------------------------------
\* milliseconds one pass of loop() takes
TickMs == 90
\* passes of loop() explored
MaxTicks == 9
\* chunks put on the wire plus touch presses plus web requests
MaxStimuli == 2
\* decoder alone: payloads handed to decodePayload
MaxDecodes == 2
\* dashboard: passes of loop() explored, and frames plus touch presses
MaxUiTicks == 10
MaxUiStimuli == 4
\* mode arbiter: the short pass of loop() in milliseconds (the long one is
\* TickMs), passes explored, and frames put on the wire
ShortMs == 40
MaxModeTicks == 8
MaxModeFrames == 1
\* recording gate: passes of loop() explored, touch presses plus web
\* requests, and restarts
MaxRecTicks == 4
MaxRecInputs == 4
MaxRecBoots == 1
\* web server beside a recording: passes of loop() explored, touch presses
\* plus web requests, and restarts
MaxWebTicks == 4
MaxWebInputs == 4
MaxWebBoots == 1
\* settings editor: touch presses plus posted forms
MaxEdits == 5
\* endless run: chunks the ECU puts on the wire before it falls silent, and
\* the passes of loop() after which it is silent at the latest
MaxLiveSent == 1
MaxLiveLead == 3
\* clock alone: the longest time followed after a reading was stored, ms
MaxElapsed == 800
\* receiver alone: bytes of the stream that are chosen freely
MaxFree == 8
\* receiver alone: payload positions below this one are chosen freely, the
\* rest of a payload is Filler
FreeLen == 1

MillisMod == 2^16

\* ------------------------------------------------------------------------
\* State
\* ------------------------------------------------------------------------
VARIABLES
  \* clock and environment
  now,            \* millis()
  staCount,       \* WiFi.softAPgetStationNum()
  serialOn,       \* ECU_SERIAL between begin() and end()
  serialBuf,      \* bytes waiting in the UART receive buffer
  prefs,          \* Preferences namespace "espdash" (survives reboot)
  sdFiles,        \* SD card: log index -> number of lines in /log_NNNNN.csv (-1: absent)
  sdWritable,     \* whether SD.open(fn, FILE_WRITE) succeeds now
  \* mode arbiter
  portalMode, uiPaused, lastWifiClientCheckMs,
  \* recording gate
  sdOk, recording, logFile, portalBusy, lastLogMs,
  setting_logEnabled, setting_logIndex,
  \* frame receiver
  rxState, rxLen, rxCount, payload, rxBytes, lastRxMs, lastPoll,
  \* decoder / snapshot
  ecu, linkValid, setting_afrFmt,
  \* shift light and screens
  shiftActive, shiftBlinkT0, shiftBlinkOn, setting_shiftEnabled, setting_shiftRpm,
  shiftBg,        \* background colour of scr_shift
  setting_viewMode,
  scr, lastUi,
  \* threshold alarms and settings editor
  warnCfg,        \* WarnId -> [enabled, minV, maxV], limits in hundredths
  settingsRow, editMin,
  \* dashboard widgets
  prev,           \* PrevData: the values last drawn
  tiles,          \* tile -> [blank, val, warn]: what the tile shows
  lblRpm, lblLink, lastStatus,
  \* history
  ev,             \* calls made by the last step, in order
  hist            \* counters and logs kept for the properties

vars == <<now, staCount, serialOn, serialBuf, prefs, sdFiles, sdWritable,
          portalMode, uiPaused, lastWifiClientCheckMs,
          sdOk, recording, logFile, portalBusy, lastLogMs,
          setting_logEnabled, setting_logIndex,
          rxState, rxLen, rxCount, payload, rxBytes, lastRxMs, lastPoll,
          ecu, linkValid, setting_afrFmt,
          shiftActive, shiftBlinkT0, shiftBlinkOn, setting_shiftEnabled, setting_shiftRpm,
          shiftBg, setting_viewMode,
          scr, lastUi, warnCfg, settingsRow, editMin,
          prev, tiles, lblRpm, lblLink, lastStatus, ev, hist>>

\* ------------------------------------------------------------------------
\* Helpers
\* ------------------------------------------------------------------------
\* unsigned difference t1 - t0 of two millis() readings
Elapsed(t1, t0) == (t1 - t0 + MillisMod) % MillisMod

\* millis() at its full width: a uint32_t as <<high half, low half>>, each
\* half in 0..MillisMod-1. Add32 is the clock advancing by n milliseconds
\* (n < MillisMod).
Add32(a, n) ==
  LET lo == a[2] + n IN <<(a[1] + lo \div MillisMod) % MillisMod, lo % MillisMod>>

\* variant: a difference that does not wrap (0 when the clock is behind the
\* stored reading)
Sub32_noWrap(a, b) ==
  IF a[1] < b[1] \/ (a[1] = b[1] /\ a[2] < b[2]) THEN <<0, 0>>
  ELSE LET lo == a[2] - b[2]
           borrow == IF lo < 0 THEN 1 ELSE 0
       IN <<a[1] - b[1] - borrow, (lo + MillisMod) % MillisMod>>

\* the uint32_t difference a - b of two readings
Sub32(a, b) ==
  LET lo == a[2] - b[2]
      borrow == IF lo < 0 THEN 1 ELSE 0
  IN <<(a[1] - b[1] - borrow + MillisMod) % MillisMod, (lo + MillisMod) % MillisMod>>

\* a uint32_t difference as the timers compare it: every value from
\* MillisMod up compares like MillisMod against the intervals
AsInterval(x) == IF x[1] > 0 THEN MillisMod ELSE x[2]

\* the decisions of the timers, on the unsigned difference e
PollDue(e) == e >= POLL_MS
LinkStale(e) == e > LINK_STALE_MS
\* variant: the station count is sampled on every pass
SampleDue_everyPass(e) == e >= 0
SampleDue(e) == e >= WIFI_CLIENT_CHECK_MS
\* variant: the blink phase toggles on every evaluation
FlipDue_everyUpdate(e) == e >= 0
FlipDue(e) == e >= SHIFT_FLASH_MS
\* variant: a row is written on every call
LogDue_everyCall(e) == e >= 0
LogDue(e) == ~(e < LOG_INTERVAL_MS)

\* p[i] of the source (0-based)
At(p, i) == p[i + 1]

\* variant: little and big end of the 16-bit word are swapped
u16be(p, i) == 256 * At(p, i) + At(p, i + 1)

u16le(p, i) == At(p, i) + 256 * At(p, i + 1)

bitSetU8(v, b) == ((v \div (2^b)) % 2) = 1

\* variant: the upper limit is not applied
clampi_noUpper(v, a, b) == IF v < a THEN a ELSE v

clampi(v, a, b) == IF v < a THEN a ELSE IF v > b THEN b ELSE v

\* float: a finite value is an integer (the limits of the warning ranges in
\* hundredths), and the three values that are not finite are kept apart
F_NAN == 2147483647
F_INF == 2147483646
F_NINF == -F_INF

FFinite(x) == x \notin {F_NAN, F_INF, F_NINF}

\* a < b, a > b, a <= b on floats: every comparison with NaN is false
FLt(a, b) == a # F_NAN /\ b # F_NAN /\ a < b
FGt(a, b) == FLt(b, a)
FLe(a, b) == a # F_NAN /\ b # F_NAN /\ a <= b

\* a + b on floats
FAdd(a, b) ==
  IF a = F_NAN \/ b = F_NAN THEN F_NAN
  ELSE IF ~FFinite(a) THEN (IF ~FFinite(b) /\ b # a THEN F_NAN ELSE a)
  ELSE IF ~FFinite(b) THEN b
  ELSE a + b

\* 0.5f * x (exact for the even sums of the model)
FHalf(x) == IF FFinite(x) THEN x \div 2 ELSE x

Count(seq, x) == Cardinality({i \in 1..Len(seq) : seq[i] = x})


\* the whole program state as one record, so that the source's functions
\* can be written as operators from state to state
St == [now |-> now, staCount |-> staCount, serialOn |-> serialOn, serialBuf |-> serialBuf,
       prefs |-> prefs, sdFiles |-> sdFiles, sdWritable |-> sdWritable,
       portalMode |-> portalMode, uiPaused |-> uiPaused,
       lastWifiClientCheckMs |-> lastWifiClientCheckMs,
       sdOk |-> sdOk, recording |-> recording, logFile |-> logFile,
       portalBusy |-> portalBusy, lastLogMs |-> lastLogMs,
       setting_logEnabled |-> setting_logEnabled, setting_logIndex |-> setting_logIndex,
       rxState |-> rxState, rxLen |-> rxLen, rxCount |-> rxCount, payload |-> payload,
       rxBytes |-> rxBytes, lastRxMs |-> lastRxMs, lastPoll |-> lastPoll,
       ecu |-> ecu, linkValid |-> linkValid, setting_afrFmt |-> setting_afrFmt,
       shiftActive |-> shiftActive, shiftBlinkT0 |-> shiftBlinkT0,
       shiftBlinkOn |-> shiftBlinkOn, setting_shiftEnabled |-> setting_shiftEnabled,
       setting_shiftRpm |-> setting_shiftRpm,
       shiftBg |-> shiftBg, setting_viewMode |-> setting_viewMode,
       scr |-> scr, lastUi |-> lastUi,
       warnCfg |-> warnCfg, settingsRow |-> settingsRow, editMin |-> editMin,
       prev |-> prev, tiles |-> tiles, lblRpm |-> lblRpm, lblLink |-> lblLink,
       lastStatus |-> lastStatus, ev |-> <<>>, hist |-> hist]

Commit(s) ==
  /\ now' = s.now /\ staCount' = s.staCount /\ serialOn' = s.serialOn
  /\ serialBuf' = s.serialBuf /\ prefs' = s.prefs /\ sdFiles' = s.sdFiles
  /\ sdWritable' = s.sdWritable
  /\ portalMode' = s.portalMode /\ uiPaused' = s.uiPaused
  /\ lastWifiClientCheckMs' = s.lastWifiClientCheckMs
  /\ sdOk' = s.sdOk /\ recording' = s.recording /\ logFile' = s.logFile
  /\ portalBusy' = s.portalBusy /\ lastLogMs' = s.lastLogMs
  /\ setting_logEnabled' = s.setting_logEnabled /\ setting_logIndex' = s.setting_logIndex
  /\ rxState' = s.rxState /\ rxLen' = s.rxLen /\ rxCount' = s.rxCount
  /\ payload' = s.payload /\ rxBytes' = s.rxBytes /\ lastRxMs' = s.lastRxMs
  /\ lastPoll' = s.lastPoll
  /\ ecu' = s.ecu /\ linkValid' = s.linkValid /\ setting_afrFmt' = s.setting_afrFmt
  /\ shiftActive' = s.shiftActive /\ shiftBlinkT0' = s.shiftBlinkT0
  /\ shiftBlinkOn' = s.shiftBlinkOn /\ setting_shiftEnabled' = s.setting_shiftEnabled
  /\ setting_shiftRpm' = s.setting_shiftRpm
  /\ shiftBg' = s.shiftBg /\ setting_viewMode' = s.setting_viewMode
  /\ scr' = s.scr /\ lastUi' = s.lastUi
  /\ warnCfg' = s.warnCfg /\ settingsRow' = s.settingsRow /\ editMin' = s.editMin
  /\ prev' = s.prev /\ tiles' = s.tiles /\ lblRpm' = s.lblRpm /\ lblLink' = s.lblLink
  /\ lastStatus' = s.lastStatus /\ ev' = s.ev /\ hist' = s.hist

Emit(s, e) == [s EXCEPT !.ev = Append(@, e)]

\* ------------------------------------------------------------------------
\* Decoder (decodeAfr, decodePayload)
\* ------------------------------------------------------------------------
\* variant: the encoding is guessed from the data (a non-zero high byte means
\* a 16-bit value in hundredths) instead of taken from the configuration
decodeAfr_fromData(p, len, fmt) ==
  IF AFR_INDEX + 1 < len /\ At(p, AFR_INDEX + 1) # 0
    THEN At(p, AFR_INDEX) + 256 * At(p, AFR_INDEX + 1)
    ELSE IF AFR_INDEX >= len THEN 0 ELSE At(p, AFR_INDEX) * 10

\* the AFR in hundredths, under the configured format
decodeAfr(p, len, fmt) ==
  IF fmt = AFR_U16_x100
    THEN IF AFR_INDEX + 1 >= len THEN 0 ELSE u16le(p, AFR_INDEX)
    ELSE IF fmt = AFR_U16_x10
      THEN IF AFR_INDEX + 1 >= len THEN 0 ELSE u16le(p, AFR_INDEX) * 10
      ELSE IF AFR_INDEX >= len THEN 0 ELSE At(p, AFR_INDEX) * 10

\* decodeAfr returns its default 0 because the payload is too short for the
\* configured format
AfrDefaulted(len, fmt) ==
  IF fmt \in {AFR_U16_x100, AFR_U16_x10} THEN AFR_INDEX + 1 >= len ELSE AFR_INDEX >= len

\* the payload indices decodePayload reads, in the order of the source
DecodeReads(len, fmt) ==
  <<IDX_IAT, IDX_CLT, IDX_RPM_L, IDX_RPM_L + 1, IDX_VBAT10>>
  \o (IF AfrDefaulted(len, fmt) THEN <<>>
      ELSE IF fmt \in {AFR_U16_x100, AFR_U16_x10} THEN <<AFR_INDEX, AFR_INDEX + 1>>
      ELSE <<AFR_INDEX>>)
  \o <<IDX_ADVANCE, IDX_TPS, IDX_ENGINE, IDX_SPARKBF>>

\* variant: the throttle is halved without the rounding term
Snapshot_tpsNoRound(p, len, fmt, t) ==
  [rpm |-> u16le(p, IDX_RPM_L),
   iatC |-> At(p, IDX_IAT) - TEMP_OFFSET,
   cltC |-> At(p, IDX_CLT) - TEMP_OFFSET,
   vbat |-> At(p, IDX_VBAT10),
   afr |-> decodeAfr(p, len, fmt),
   tps |-> At(p, IDX_TPS) \div 2,
   advance |-> At(p, IDX_ADVANCE),
   warmup |-> bitSetU8(At(p, IDX_ENGINE), 3),
   launch |-> bitSetU8(At(p, IDX_SPARKBF), 0) \/ bitSetU8(At(p, IDX_SPARKBF), 1),
   lastUpdateMs |-> t]

\* the snapshot a payload of at least 40 bytes decodes to
Snapshot(p, len, fmt, t) ==
  [rpm |-> u16le(p, IDX_RPM_L),
   iatC |-> At(p, IDX_IAT) - TEMP_OFFSET,
   cltC |-> At(p, IDX_CLT) - TEMP_OFFSET,
   vbat |-> At(p, IDX_VBAT10),
   afr |-> decodeAfr(p, len, fmt),
   tps |-> (At(p, IDX_TPS) + 1) \div 2,
   advance |-> At(p, IDX_ADVANCE),
   warmup |-> bitSetU8(At(p, IDX_ENGINE), 3),
   launch |-> bitSetU8(At(p, IDX_SPARKBF), 0) \/ bitSetU8(At(p, IDX_SPARKBF), 1),
   lastUpdateMs |-> t]

\* variant: a payload one byte short is decoded too
DecodeAccepts_from39(len) == len >= MIN_DECODE_LEN - 1

\* variant: every payload is decoded, whatever its length
DecodeAccepts_any(len) == len >= 0

\* the length check at the head of decodePayload
DecodeAccepts(len) == ~(len < MIN_DECODE_LEN)

RECURSIVE EmitReads(_, _, _)
\* one "read" call per index of reads, from position k on
EmitReads(s, reads, k) ==
  IF k > Len(reads) THEN s ELSE EmitReads(Emit(s, <<"read", reads[k]>>), reads, k + 1)

decodePayload(s, p, len) ==
  IF ~DecodeAccepts(len) THEN s
  ELSE LET fmt == s.setting_afrFmt
           s1 == EmitReads(s, DecodeReads(len, fmt), 1)
           s2 == IF AfrDefaulted(len, fmt) THEN Emit(s1, <<"afr.default", 0>>) ELSE s1
       IN Emit([s2 EXCEPT !.ecu = Snapshot(p, len, fmt, s.now), !.linkValid = TRUE],
               <<"decode", len>>)

\* ------------------------------------------------------------------------
\* Frame receiver (onRxByte, pollSpeeduino)
\* ------------------------------------------------------------------------
\* variant: the upper limit of the length check is dropped
LenAccepted_noUpper(len) == len # 0

\* variant: the length check excludes MAX_PAYLOAD itself
LenAccepted_belowMax(len) == len > 0 /\ len < MAX_PAYLOAD

\* a length byte the receiver accepts
LenAccepted(len) == ~(len = 0 \/ len > MAX_PAYLOAD)

\* variant: the frame is handed over one byte late
FrameComplete_late(count, len) == count > len

\* the frame is handed to the decoder once rxCount reaches rxLen
FrameComplete(count, len) == count >= len

onRxByte(s, b) ==
  LET s0 == [s EXCEPT !.rxBytes = (@ + 1) % MillisMod, !.lastRxMs = s.now] IN
  CASE s0.rxState = WAIT_N ->
         IF b = CMD_N THEN [s0 EXCEPT !.rxState = WAIT_TYPE] ELSE s0
    [] s0.rxState = WAIT_TYPE -> [s0 EXCEPT !.rxState = WAIT_LEN]
    [] s0.rxState = WAIT_LEN ->
         [s0 EXCEPT !.rxLen = b, !.rxCount = 0,
                    !.rxState = IF LenAccepted(b) THEN READ_PAYLOAD ELSE WAIT_N]
    [] s0.rxState = READ_PAYLOAD ->
         LET s1 == Emit([s0 EXCEPT !.payload = [@ EXCEPT ![s0.rxCount + 1] = b],
                                   !.rxCount = @ + 1],
                        <<"payload.write", s0.rxCount>>)
         IN IF FrameComplete(s1.rxCount, s1.rxLen)
              THEN [decodePayload([Emit(s1, <<"frame", s1.rxLen>>) EXCEPT
                                     !.hist.frames = Append(@, SubSeq(s1.payload, 1, s1.rxLen))],
                                  s1.payload, s1.rxLen)
                      EXCEPT !.rxState = WAIT_N]
              ELSE s1

\* ECU_SERIAL.write(CMD_N); the history keeps what the receiver and the mode
\* were when the byte went out, and the time since the previous request
SerialWritePoll(s) ==
  Emit([s EXCEPT !.hist.pollRx = s.rxState, !.hist.pollPortal = s.portalMode,
                 !.hist.pollGap = IF s.hist.pollT = -1 THEN -1 ELSE Elapsed(s.now, s.hist.pollT),
                 !.hist.pollT = s.now],
       <<"serial.write", CMD_N>>)

\* variant: the request is written whatever the receiver is doing
pollSpeeduino_always(s) == SerialWritePoll(s)

pollSpeeduino(s) == IF s.rxState = WAIT_N THEN SerialWritePoll(s) ELSE s

\* ------------------------------------------------------------------------
\* Settings persistence (loadSettings, saveSettings)
\* ------------------------------------------------------------------------
saveSettings(s) ==
  Emit([s EXCEPT !.prefs = [logEn |-> s.setting_logEnabled,
                            afrFmt |-> s.setting_afrFmt,
                            logIdx |-> s.setting_logIndex,
                            shEn |-> s.setting_shiftEnabled,
                            shRpm |-> s.setting_shiftRpm,
                            view |-> s.setting_viewMode,
                            warn |-> s.warnCfg]],
       <<"prefs.putLogIdx", s.setting_logIndex>>)

\* ------------------------------------------------------------------------
\* SD logging (stopRecording, startRecording, logIfRecording)
\* ------------------------------------------------------------------------
\* lines of the file /log_<idx>.csv, -1 when it does not exist
Lines(files, idx) == IF idx \in DOMAIN files THEN files[idx] ELSE -1

\* SD.open(fn, FILE_WRITE) creates the file or truncates it
OpenForWrite(files, idx) == [i \in DOMAIN files \cup {idx} |-> IF i = idx THEN 0 ELSE files[i]]

AppendLine(files, idx) == [files EXCEPT ![idx] = @ + 1]

stopRecording(s) ==
  LET s1 == IF s.logFile # 0
              THEN Emit(Emit([s EXCEPT !.logFile = 0], <<"log.flush", s.logFile>>),
                        <<"log.close", s.logFile>>)
              ELSE s
  IN [s1 EXCEPT !.recording = FALSE]

\* the strings startRecording returns, in the order of its checks; a call
\* records the position of the string it returned
Refusals ==
  <<"Logging disabled", "SD card not detected", "Already recording", "Portal busy",
    "Failed to open log file">>

RefusalCode(reason) == CHOOSE k \in 1..Len(Refusals) : Refusals[k] = reason

\* variant: the busy flag is looked at first
startRefusal_busyFirst(s) ==
  IF s.portalBusy THEN "Portal busy"
  ELSE IF ~s.setting_logEnabled THEN "Logging disabled"
  ELSE IF ~s.sdOk THEN "SD card not detected"
  ELSE IF s.recording THEN "Already recording"
  ELSE ""

\* the reason startRecording refuses with before it opens the file, "" when
\* it goes ahead
startRefusal(s) ==
  IF ~s.setting_logEnabled THEN "Logging disabled"
  ELSE IF ~s.sdOk THEN "SD card not detected"
  ELSE IF s.recording THEN "Already recording"
  ELSE IF s.portalBusy THEN "Portal busy"
  ELSE ""

\* what a call of startRecording finds: 1 logging disabled, 2 no card,
\* 4 recording, 8 handler busy, 16 the card refuses a new file
StartFlags(s) ==
  (IF ~s.setting_logEnabled THEN 1 ELSE 0) + (IF ~s.sdOk THEN 2 ELSE 0)
    + (IF s.recording THEN 4 ELSE 0) + (IF s.portalBusy THEN 8 ELSE 0)
    + (IF ~s.sdWritable THEN 16 ELSE 0)

\* variant: the counter is not advanced by a start
NextLogIndex_same(idx) == idx

\* setting_logIndex++
NextLogIndex(idx) == idx + 1

\* the calls record what the call found (start.try), the string returned
\* (start.refused) and the session number used (start.ok)
startRecording(s) ==
  LET s0 == Emit(s, <<"start.try", StartFlags(s)>>) IN
  IF startRefusal(s0) # "" THEN Emit(s0, <<"start.refused", RefusalCode(startRefusal(s0))>>)
  ELSE IF ~s0.sdWritable
    THEN Emit(Emit([s0 EXCEPT !.logFile = 0], <<"sd.openFailed", s0.setting_logIndex>>),
              <<"start.refused", RefusalCode("Failed to open log file")>>)
  ELSE
    LET idx == s0.setting_logIndex
        s1 == Emit([s0 EXCEPT !.sdFiles = OpenForWrite(@, idx), !.logFile = idx],
                   <<"sd.open", idx>>)
        s2 == Emit([s1 EXCEPT !.sdFiles = AppendLine(@, idx), !.recording = TRUE],
                   <<"log.println", idx>>)
        s3 == saveSettings([s2 EXCEPT !.setting_logIndex = NextLogIndex(@)])
    IN Emit([s3 EXCEPT !.lastLogMs = 0, !.hist.latest = idx,
                       !.hist.sessions = IF Len(@) < 3 THEN Append(@, idx) ELSE @],
            <<"start.ok", idx>>)

\* the calls record what held when the row was written (log.row: 1 recording,
\* 2 card present, 4 file open, 8 handler not busy), the time since the
\* previous row of any file (log.gap) and of this file (log.gapSession),
\* -1 when there is none, and whether the link was valid (log.link); log.call
\* records whether the handler-busy flag was set when the function was entered
logIfRecording(s0) ==
  LET s == Emit(s0, <<"log.call", IF s0.portalBusy THEN 1 ELSE 0>>) IN
  IF ~s.recording \/ ~s.sdOk \/ s.logFile = 0 THEN s
  ELSE IF s.portalBusy THEN s
  ELSE IF ~LogDue(Elapsed(s.now, s.lastLogMs)) THEN s
  ELSE LET gap == IF s.hist.rowT = -1 THEN -1 ELSE Elapsed(s.now, s.hist.rowT)
           s1 == Emit(s, <<"log.row", (IF s.recording THEN 1 ELSE 0) + (IF s.sdOk THEN 2 ELSE 0)
                                        + (IF s.logFile # 0 THEN 4 ELSE 0)
                                        + (IF ~s.portalBusy THEN 8 ELSE 0)>>)
           s2 == Emit(s1, <<"log.gap", gap>>)
           s2a == Emit(s2, <<"log.link", IF s.linkValid THEN 1 ELSE 0>>)
           s3 == Emit(s2a, <<"log.gapSession",
                            IF s.hist.rowFile = s.logFile THEN gap ELSE -1>>)
       IN Emit([s3 EXCEPT !.lastLogMs = s.now, !.sdFiles = AppendLine(@, s.logFile),
                          !.hist.rowT = s.now, !.hist.rowFile = s.logFile],
               <<"log.println", s.logFile>>)

\* ------------------------------------------------------------------------
\* Dashboard update (update_dash_values): staleness and shift light
\* ------------------------------------------------------------------------
\* defaultsWarn(): the limits in hundredths of the field's unit
defaultsWarn ==
  [id \in 0..(W_COUNT - 1) |->
     CASE id = W_AFR -> [enabled |-> TRUE, minV |-> 1000, maxV |-> 1650]
       [] id = W_VBAT -> [enabled |-> TRUE, minV |-> 1150, maxV |-> 1520]
       [] id = W_IAT -> [enabled |-> TRUE, minV |-> -1000, maxV |-> 6000]
       [] id = W_CLT -> [enabled |-> TRUE, minV |-> 0, maxV |-> 10500]
       [] id = W_TPS -> [enabled |-> FALSE, minV |-> 0, maxV |-> 10000]
       [] OTHER -> [enabled |-> FALSE, minV |-> -1000, maxV |-> 5000]]

\* variant: the limits themselves raise the alarm
warnCheckInt_inclusive(cfg, id, v) ==
  IF ~cfg[id].enabled THEN FALSE
  ELSE FLe(100 * v, cfg[id].minV) \/ FLe(cfg[id].maxV, 100 * v)

\* v100 is the float value in hundredths
warnCheckFloat(cfg, id, v100) ==
  IF ~cfg[id].enabled THEN FALSE
  ELSE FLt(v100, cfg[id].minV) \/ FGt(v100, cfg[id].maxV)

warnCheckInt(cfg, id, v) ==
  IF ~cfg[id].enabled THEN FALSE
  ELSE FLt(100 * v, cfg[id].minV) \/ FGt(100 * v, cfg[id].maxV)

\* struct PrevData: nothing drawn yet
PrevData ==
  [rpm |-> INT32_MIN, iatC |-> INT32_MIN, cltC |-> INT32_MIN, vbat10 |-> INT32_MIN,
   afrScaled |-> INT32_MIN, tps |-> INT32_MIN, advance |-> INT32_MIN,
   warmup |-> INT32_MIN, launch |-> INT32_MIN]

\* tiles_all
Tiles == {"afr", "vbat", "iat", "clt", "tps", "adv", "warm", "launch"}

BlankTile == [blank |-> TRUE, val |-> 0, warn |-> FALSE]

set_tile_value(s, tile, val, warn) ==
  [s EXCEPT !.tiles[tile] = [blank |-> FALSE, val |-> val, warn |-> warn]]

set_tile_blank(s, tile) ==
  [s EXCEPT !.tiles[tile] = [blank |-> TRUE, val |-> 0, warn |-> FALSE]]

update_status_bar(s, stale) ==
  Emit([s EXCEPT !.lblLink = IF stale THEN "STALE" ELSE "OK"],
       <<"status.update", IF stale THEN 1 ELSE 0>>)

\* variant: a tile is redrawn on every update, not only when its value changed
TileChanged_always(val, drawn) == TRUE

\* if (value != prev.value): the tile is redrawn only when its value changed
TileChanged(val, drawn) == val # drawn

\* one "if (x != prev.x) { set_tile_value(...); prev.x = x; }" block
DrawTile(s, tile, pf, val, warn) ==
  IF TileChanged(val, s.prev[pf])
    THEN [set_tile_value(s, tile, val, warn) EXCEPT !.prev[pf] = val]
    ELSE s

\* the part of update_dash_values after the shift light: labels and tiles
DrawValues(s) ==
  IF ~s.linkValid
    THEN [[s EXCEPT !.tiles = [n \in Tiles |-> BlankTile], !.lblRpm = 0]
            EXCEPT !.prev = [PrevData EXCEPT !.rpm = 0]]
    ELSE
      LET e == s.ecu
          cfg == s.warnCfg
          b2i(b) == IF b THEN 1 ELSE 0
          s1 == IF e.rpm # s.prev.rpm
                  THEN [s EXCEPT !.lblRpm = e.rpm, !.prev.rpm = e.rpm] ELSE s
          s2 == DrawTile(s1, "afr", "afrScaled", e.afr, warnCheckFloat(cfg, W_AFR, e.afr))
          s3 == DrawTile(s2, "vbat", "vbat10", e.vbat, warnCheckFloat(cfg, W_VBAT, 10 * e.vbat))
          s4 == DrawTile(s3, "iat", "iatC", e.iatC, warnCheckInt(cfg, W_IAT, e.iatC))
          s5 == DrawTile(s4, "clt", "cltC", e.cltC, warnCheckInt(cfg, W_CLT, e.cltC))
          s6 == DrawTile(s5, "tps", "tps", e.tps, warnCheckInt(cfg, W_TPS, e.tps))
          s7 == DrawTile(s6, "adv", "advance", e.advance, warnCheckInt(cfg, W_ADV, e.advance))
          s8 == DrawTile(s7, "warm", "warmup", b2i(e.warmup), FALSE)
      IN DrawTile(s8, "launch", "launch", b2i(e.launch), FALSE)

\* variant: the shift light ignores its enable switch
ShiftWanted_noEnable(s) == s.linkValid /\ s.ecu.rpm >= s.setting_shiftRpm

\* the activation condition of the shift light
ShiftWanted(s) == s.setting_shiftEnabled /\ s.linkValid /\ s.ecu.rpm >= s.setting_shiftRpm

\* variant: the alert starts with the blink phase the previous one left
ShiftEnter_keepPhase(s) ==
  Emit([s EXCEPT !.shiftActive = TRUE, !.shiftBlinkT0 = s.now, !.scr = "shift"],
       <<"shift.enter", 0>>)

\* the Idle -> Alerting edge
ShiftEnter(s) ==
  Emit([s EXCEPT !.shiftActive = TRUE, !.shiftBlinkT0 = s.now,
                 !.shiftBlinkOn = TRUE, !.scr = "shift"],
       <<"shift.enter", 0>>)

\* the calls record the time since the previous evaluation of the dashboard
\* (ui.update) and since the previous toggle or the activation (shift.flip)
update_dash_values(s) ==
  LET stale == LinkStale(Elapsed(s.now, s.lastRxMs))
      s0 == Emit(IF stale THEN [s EXCEPT !.linkValid = FALSE] ELSE s,
                 <<"ui.update", Elapsed(s.now, s.lastUi)>>)
      s1 == IF Elapsed(s0.now, s0.lastStatus) > STATUS_UPDATE_MS
              THEN [update_status_bar(s0, stale) EXCEPT !.lastStatus = s0.now]
              ELSE s0
  IN IF ShiftWanted(s1)
       THEN LET s2 == IF ~s1.shiftActive THEN ShiftEnter(s1) ELSE s1
            IN IF FlipDue(Elapsed(s2.now, s2.shiftBlinkT0))
                 THEN Emit([s2 EXCEPT !.shiftBlinkT0 = s2.now, !.shiftBlinkOn = ~@,
                                      !.shiftBg = IF ~s2.shiftBlinkOn THEN C_RED ELSE C_BG],
                           <<"shift.flip", Elapsed(s2.now, s2.shiftBlinkT0)>>)
                 ELSE s2
       ELSE DrawValues(IF s1.shiftActive
                         THEN Emit([s1 EXCEPT !.shiftActive = FALSE, !.scr = "dash"],
                                   <<"shift.exit", 0>>)
                         ELSE s1)

\* ------------------------------------------------------------------------
\* Mode arbiter (setUiPaused, setPortalMode)
\* ------------------------------------------------------------------------
setUiPaused(s, pause) == IF s.uiPaused = pause THEN s ELSE [s EXCEPT !.uiPaused = pause]

\* variant: the return to the dashboard keeps the receiver where it was
ResetReceiver_keepState(s) ==
  [s EXCEPT !.serialBuf = <<>>, !.linkValid = FALSE, !.lastRxMs = s.now]

\* the receiver and link state a return to the dashboard starts from
ResetReceiver(s) ==
  [s EXCEPT !.serialBuf = <<>>, !.rxState = WAIT_N, !.rxCount = 0, !.rxLen = 0,
            !.linkValid = FALSE, !.lastRxMs = s.now]

\* variant: a recording is left running when the portal is entered
setPortalMode_keepRec(s, on) ==
  IF s.portalMode = on THEN s
  ELSE IF on
    THEN LET s1 == Emit([s EXCEPT !.portalMode = TRUE, !.serialOn = FALSE,
                                  !.serialBuf = <<>>], <<"serial.end", 0>>)
         IN Emit(setUiPaused(s1, TRUE), <<"tft.drawPortal", 0>>)
    ELSE LET s1 == Emit([s EXCEPT !.portalMode = FALSE, !.serialOn = TRUE],
                        <<"serial.begin", 0>>)
             s2 == Emit(ResetReceiver(s1), <<"rx.reset", 0>>)
         IN Emit([setUiPaused(s2, FALSE) EXCEPT !.scr = "dash"], <<"lv.redraw", 0>>)

\* variant: the early return for an unchanged mode is dropped
setPortalMode_noGuard(s, on) ==
  IF on
    THEN LET s1 == Emit([s EXCEPT !.portalMode = TRUE, !.serialOn = FALSE,
                                  !.serialBuf = <<>>], <<"serial.end", 0>>)
             s2 == IF s1.recording THEN stopRecording(s1) ELSE s1
         IN Emit(setUiPaused(s2, TRUE), <<"tft.drawPortal", 0>>)
    ELSE LET s1 == Emit([s EXCEPT !.portalMode = FALSE, !.serialOn = TRUE],
                        <<"serial.begin", 0>>)
             s2 == Emit(ResetReceiver(s1), <<"rx.reset", 0>>)
         IN Emit([setUiPaused(s2, FALSE) EXCEPT !.scr = "dash"], <<"lv.redraw", 0>>)

\* variant: the return to the dashboard leaves the presentation suspended
setPortalMode_staysPaused(s, on) ==
  IF s.portalMode = on THEN s
  ELSE IF on
    THEN LET s1 == Emit([s EXCEPT !.portalMode = TRUE, !.serialOn = FALSE,
                                  !.serialBuf = <<>>], <<"serial.end", 0>>)
             s2 == IF s1.recording THEN stopRecording(s1) ELSE s1
         IN Emit(setUiPaused(s2, TRUE), <<"tft.drawPortal", 0>>)
    ELSE LET s1 == Emit([s EXCEPT !.portalMode = FALSE, !.serialOn = TRUE],
                        <<"serial.begin", 0>>)
             s2 == Emit(ResetReceiver(s1), <<"rx.reset", 0>>)
         IN Emit([s2 EXCEPT !.scr = "dash"], <<"lv.redraw", 0>>)

setPortalMode(s, on) ==
  IF s.portalMode = on THEN s
  ELSE IF on
    THEN LET s1 == Emit([s EXCEPT !.portalMode = TRUE, !.serialOn = FALSE,
                                  !.serialBuf = <<>>], <<"serial.end", 0>>)
             s2 == IF s1.recording THEN stopRecording(s1) ELSE s1
         IN Emit(setUiPaused(s2, TRUE), <<"tft.drawPortal", 0>>)
    ELSE LET s1 == Emit([s EXCEPT !.portalMode = FALSE, !.serialOn = TRUE],
                        <<"serial.begin", 0>>)
             s2 == Emit(ResetReceiver(s1), <<"rx.reset", 0>>)
         IN Emit([setUiPaused(s2, FALSE) EXCEPT !.scr = "dash"], <<"lv.redraw", 0>>)

\* ------------------------------------------------------------------------
\* Touch and web handlers (btn_event_cb, settings_switch_cb, handleRec, handleSave)
\* ------------------------------------------------------------------------
\* the switch of each row of the settings list, and the row itself
SwitchRow ==
  [n \in {"sw_afr", "sw_vbat", "sw_iat", "sw_clt", "sw_tps", "sw_adv",
          "sw_shift", "sw_view", "logsw"} |->
     CASE n = "sw_afr" -> W_AFR [] n = "sw_vbat" -> W_VBAT [] n = "sw_iat" -> W_IAT
       [] n = "sw_clt" -> W_CLT [] n = "sw_tps" -> W_TPS [] n = "sw_adv" -> W_ADV
       [] n = "sw_shift" -> ROW_SHIFT [] n = "sw_view" -> ROW_VIEW
       [] OTHER -> ROW_LOGGING]

RowClick ==
  [n \in {"row_afr", "row_vbat", "row_iat", "row_clt", "row_tps", "row_adv",
          "row_shift", "row_view", "row_log"} |->
     CASE n = "row_afr" -> W_AFR [] n = "row_vbat" -> W_VBAT [] n = "row_iat" -> W_IAT
       [] n = "row_clt" -> W_CLT [] n = "row_tps" -> W_TPS [] n = "row_adv" -> W_ADV
       [] n = "row_shift" -> ROW_SHIFT [] n = "row_view" -> ROW_VIEW
       [] OTHER -> ROW_LOGGING]

\* the widgets that can be pressed on the screen shown
TouchOn(screen) ==
  IF screen = "dash" THEN {"none", "rec", "set"}
  ELSE IF screen = "settings"
    THEN {"none", "back", "save", "minmax", "plus", "minus", "defaults"}
           \cup DOMAIN SwitchRow \cup DOMAIN RowClick
  ELSE {"none"}

\* warnStep, in hundredths
warnStep(row) == IF row \in {W_AFR, W_VBAT} THEN 10 ELSE 100

\* "if (minV > maxV) minV = maxV = mid"
OrderRange(r) ==
  IF FGt(r.minV, r.maxV)
    THEN LET mid == FHalf(FAdd(r.minV, r.maxV)) IN [r EXCEPT !.minV = mid, !.maxV = mid]
    ELSE r

\* the minus and plus buttons: dir is -1 or 1
StepRow(s, dir) ==
  LET row == s.settingsRow IN
  IF row < W_COUNT
    THEN LET r == s.warnCfg[row]
             moved == IF s.editMin THEN [r EXCEPT !.minV = FAdd(@, dir * warnStep(row))]
                      ELSE [r EXCEPT !.maxV = FAdd(@, dir * warnStep(row))]
         IN [s EXCEPT !.warnCfg[row] = OrderRange(moved)]
  ELSE IF row = ROW_SHIFT
    THEN [s EXCEPT !.setting_shiftRpm = clampi(@ + dir * 100, 0, RPM_MAX)]
  ELSE IF row = ROW_VIEW
    THEN [s EXCEPT !.setting_viewMode = IF @ = VIEW_RING THEN VIEW_BAR ELSE VIEW_RING]
  ELSE s

btn_event_cb(s, obj) ==
  CASE obj = "rec" -> IF ~s.recording THEN startRecording(s) ELSE stopRecording(s)
    [] obj = "set" -> [s EXCEPT !.scr = "settings"]
    [] obj = "back" -> [s EXCEPT !.scr = "dash"]
    [] obj = "save" -> saveSettings(s)
    [] obj = "minmax" -> [s EXCEPT !.editMin = ~@]
    [] obj = "plus" -> StepRow(s, 1)
    [] obj = "minus" -> StepRow(s, -1)
    [] OTHER -> s

settings_row_click_cb(s, idx) ==
  [s EXCEPT !.settingsRow = clampi(idx, 0, SETTINGS_ROW_COUNT - 1)]

\* the switch of row idx was flipped: on is its new position, the opposite of
\* the setting it showed
settings_switch_cb(s, idx) ==
  LET s1 == [s EXCEPT !.settingsRow = clampi(idx, 0, SETTINGS_ROW_COUNT - 1)] IN
  IF idx < W_COUNT THEN [s1 EXCEPT !.warnCfg[idx].enabled = ~@]
  ELSE IF idx = ROW_SHIFT THEN [s1 EXCEPT !.setting_shiftEnabled = ~@]
  ELSE IF idx = ROW_VIEW
    THEN [s1 EXCEPT !.setting_viewMode = IF @ = VIEW_BAR THEN VIEW_RING ELSE VIEW_BAR]
  ELSE [s1 EXCEPT !.setting_logEnabled = ~@]

\* variant: the reset saves all settings
resetWarningsToDefaults_saveAll(s) ==
  Emit(saveSettings([s EXCEPT !.warnCfg = defaultsWarn]), <<"prefs.putWarn", 0>>)

\* "Yes" in the defaults dialog: default_action_timer with apply set
resetWarningsToDefaults(s) ==
  Emit([s EXCEPT !.warnCfg = defaultsWarn, !.prefs.warn = defaultsWarn],
       <<"prefs.putWarn", 0>>)

\* lv_timer_handler(): LVGL delivers the pending press to its callback
lv_timer_handler(s, touch) ==
  IF touch \in DOMAIN SwitchRow THEN settings_switch_cb(s, SwitchRow[touch])
  ELSE IF touch \in DOMAIN RowClick THEN settings_row_click_cb(s, RowClick[touch])
  ELSE IF touch = "defaults" THEN resetWarningsToDefaults(s)
  ELSE btn_event_cb(s, touch)

\* the call records what the request found: 2 a recording to stop, 1 none
\* and the card present with logging enabled, 0 otherwise
handleRec(s) ==
  LET found == IF s.recording THEN 2
               ELSE IF s.sdOk /\ s.setting_logEnabled THEN 1 ELSE 0
      s1 == Emit([s EXCEPT !.portalBusy = TRUE], <<"web.rec", found>>) IN
  IF ~s1.sdOk THEN [s1 EXCEPT !.portalBusy = FALSE]
  ELSE LET s2 == IF ~s1.recording THEN startRecording(s1) ELSE stopRecording(s1)
       IN [s2 EXCEPT !.portalBusy = FALSE]

\* the text of a number field of a form: a decimal (k = "num", v its value
\* in hundredths), "nan", "inf", "-inf", or text that is no number
NumText(v) == [k |-> "num", v |-> v]
NanText == [k |-> "nan", v |-> 0]
InfText == [k |-> "inf", v |-> 0]
NegInfText == [k |-> "-inf", v |-> 0]
JunkText == [k |-> "junk", v |-> 0]

\* String::toFloat(): atof of the text, 0 when it is no number
toFloat(txt) ==
  CASE txt.k = "num" -> txt.v
    [] txt.k = "nan" -> F_NAN
    [] txt.k = "inf" -> F_INF
    [] txt.k = "-inf" -> F_NINF
    [] OTHER -> 0

\* the warnings page prints AFR and VBAT limits with "%.1f", the others with
\* "%.0f": the value rounded to a tenth or to a whole number
FormatLimit(id, x) ==
  LET q == IF id \in {W_AFR, W_VBAT} THEN 10 ELSE 100 IN
  CASE x = F_NAN -> NanText
    [] x = F_INF -> InfText
    [] x = F_NINF -> NegInfText
    [] OTHER -> NumText(((x + q \div 2) \div q) * q)

\* the rows of the warnings page as it shows the ranges in memory
WarnRows(s) ==
  [i \in DOMAIN s.warnCfg |->
     [e |-> s.warnCfg[i].enabled, min |-> FormatLimit(i, s.warnCfg[i].minV),
      max |-> FormatLimit(i, s.warnCfg[i].maxV)]]

\* the form the page posts when nothing was edited; form.warn holds the
\* rows of the warnings page, <<>> when the root page posted; form.complete
\* tells whether view, logEn, shiftEn and shiftRpm are all there
SaveForm(s) ==
  [complete |-> TRUE, view |-> s.setting_viewMode,
   logEn |-> s.setting_logEnabled, shiftEn |-> s.setting_shiftEnabled,
   shiftRpm |-> s.setting_shiftRpm, warn |-> <<>>]

\* variant: the answer to an incomplete form leaves the busy flag set
handleSave_busyLeft(s, form) ==
  LET s0 == Emit([s EXCEPT !.portalBusy = TRUE], <<"web.save", IF form.complete THEN 1 ELSE 0>>) IN
  IF ~form.complete THEN Emit(s0, <<"web.send", 400>>)
  ELSE
    LET s2 == [s0 EXCEPT !.setting_viewMode = form.view % 256,
                         !.setting_logEnabled = form.logEn,
                         !.setting_shiftEnabled = form.shiftEn,
                         !.setting_shiftRpm = clampi(form.shiftRpm, 0, RPM_MAX)]
        s3 == [s2 EXCEPT !.warnCfg = [i \in DOMAIN @ |->
                                        IF i \in DOMAIN form.warn
                                          THEN OrderRange([enabled |-> form.warn[i].e,
                                                           minV |-> toFloat(form.warn[i].min),
                                                           maxV |-> toFloat(form.warn[i].max)])
                                          ELSE @[i]]]
    IN Emit([saveSettings(s3) EXCEPT !.portalBusy = FALSE], <<"web.send", 303>>)

handleSave(s, form) ==
  LET s0 == Emit([s EXCEPT !.portalBusy = TRUE], <<"web.save", IF form.complete THEN 1 ELSE 0>>) IN
  IF ~form.complete THEN Emit([s0 EXCEPT !.portalBusy = FALSE], <<"web.send", 400>>)
  ELSE
    LET s2 == [s0 EXCEPT !.setting_viewMode = form.view % 256,
                         !.setting_logEnabled = form.logEn,
                         !.setting_shiftEnabled = form.shiftEn,
                         !.setting_shiftRpm = clampi(form.shiftRpm, 0, RPM_MAX)]
        s3 == [s2 EXCEPT !.warnCfg = [i \in DOMAIN @ |->
                                        IF i \in DOMAIN form.warn
                                          THEN OrderRange([enabled |-> form.warn[i].e,
                                                           minV |-> toFloat(form.warn[i].min),
                                                           maxV |-> toFloat(form.warn[i].max)])
                                          ELSE @[i]]]
    IN Emit([saveSettings(s3) EXCEPT !.portalBusy = FALSE], <<"web.send", 303>>)

\* "if (recording && logFile) logFile.flush();" at the head of the pages
FlushForPage(s) ==
  IF s.recording /\ s.logFile # 0 THEN Emit(s, <<"log.flush", s.logFile>>) ELSE s

\* the pages / and /warn: the calls record whether a recording was active
handleRoot(s) ==
  LET s1 == Emit([s EXCEPT !.portalBusy = TRUE], <<"web.root", IF s.recording THEN 1 ELSE 0>>)
  IN [Emit(FlushForPage(s1), <<"web.send", 200>>) EXCEPT !.portalBusy = FALSE]

handleWarn(s) ==
  LET s1 == Emit([s EXCEPT !.portalBusy = TRUE], <<"web.warn", IF s.recording THEN 1 ELSE 0>>)
  IN [Emit(FlushForPage(s1), <<"web.send", 200>>) EXCEPT !.portalBusy = FALSE]

\* the files of the card in the listing
Listed(files) == {i \in DOMAIN files : files[i] >= 0}

\* variant: the page lists the card also while a recording is active
handleLogs_always(s) ==
  LET s1 == Emit([s EXCEPT !.portalBusy = TRUE], <<"web.logs", IF s.recording THEN 1 ELSE 0>>)
      s2 == Emit(FlushForPage(s1), <<"web.send", 200>>)
      s3 == IF ~s2.sdOk THEN s2
            ELSE Emit(s2, <<"sd.list", Cardinality(Listed(s2.sdFiles))>>)
  IN [s3 EXCEPT !.portalBusy = FALSE]

\* the page /logs: sd.list is the walk through the root directory, with the
\* number of files it lists
handleLogs(s) ==
  LET s1 == Emit([s EXCEPT !.portalBusy = TRUE], <<"web.logs", IF s.recording THEN 1 ELSE 0>>)
      s2 == Emit(FlushForPage(s1), <<"web.send", 200>>)
      s3 == IF ~s2.sdOk THEN s2
            ELSE IF s2.recording THEN s2
            ELSE Emit(s2, <<"sd.list", Cardinality(Listed(s2.sdFiles))>>)
  IN [s3 EXCEPT !.portalBusy = FALSE]

\* a file name: whether it starts with "/", whether it holds "..", whether
\* it is empty, and the number n when the rest is log_<n>.csv (0 otherwise)
makeLogFilename(idx) == [slash |-> TRUE, dots |-> FALSE, empty |-> FALSE, log |-> idx]

\* SD.exists(fn)
Exists(files, fn) == fn.slash /\ ~fn.dots /\ ~fn.empty /\ Lines(files, fn.log) >= 0

\* SD.open(fn, FILE_READ), streamFile and close; the answer is 200
StreamFile(s, fn) == Emit(Emit(s, <<"sd.read", fn.log>>), <<"web.send", 200>>)

\* variant: the newest file is taken to be the one the counter names
LatestIndex_current(logIndex) == logIndex

\* "idx = (setting_logIndex > 0) ? (setting_logIndex - 1) : 0"
LatestIndex(logIndex) == IF logIndex > 0 THEN logIndex - 1 ELSE 0

\* the calls record whether a recording was active (web.latest), the status
\* sent (web.send) and the answer "No logs yet" (web.nologs)
handleDownloadLatest(s) ==
  LET s1 == Emit([s EXCEPT !.portalBusy = TRUE], <<"web.latest", IF s.recording THEN 1 ELSE 0>>)
      idx == LatestIndex(s1.setting_logIndex)
      fn == makeLogFilename(idx)
      s2 == IF ~s1.sdOk THEN Emit(s1, <<"web.send", 500>>)
            ELSE IF s1.recording THEN Emit(s1, <<"web.send", 409>>)
            ELSE IF idx = 0 THEN Emit(Emit(s1, <<"web.nologs", 0>>), <<"web.send", 404>>)
            ELSE IF ~Exists(s1.sdFiles, fn) THEN Emit(s1, <<"web.send", 404>>)
            ELSE StreamFile(s1, fn)
  IN [s2 EXCEPT !.portalBusy = FALSE]

\* the arguments of /download: ?i=<number> or ?f=<name>
ArgI(n) == [hasI |-> TRUE, i |-> n, f |-> [slash |-> FALSE, dots |-> FALSE, empty |-> TRUE, log |-> 0]]
ArgF(fn) == [hasI |-> FALSE, i |-> 0, f |-> fn]

\* variant: the file is streamed also while a recording is active
handleDownload_noRecCheck(s, arg) ==
  LET s1 == Emit([s EXCEPT !.portalBusy = TRUE], <<"web.download", IF s.recording THEN 1 ELSE 0>>)
      fn == IF arg.hasI THEN makeLogFilename(arg.i) ELSE [arg.f EXCEPT !.slash = TRUE]
      s2 == IF ~s1.sdOk THEN Emit(s1, <<"web.send", 500>>)
            ELSE IF arg.hasI /\ arg.i < 1 THEN Emit(s1, <<"web.send", 400>>)
            ELSE IF ~arg.hasI /\ arg.f.empty THEN Emit(s1, <<"web.send", 400>>)
            ELSE IF fn.dots THEN Emit(s1, <<"web.send", 400>>)
            ELSE IF ~Exists(s1.sdFiles, fn) THEN Emit(s1, <<"web.send", 404>>)
            ELSE StreamFile(s1, fn)
  IN [s2 EXCEPT !.portalBusy = FALSE]

handleDownload(s, arg) ==
  LET s1 == Emit([s EXCEPT !.portalBusy = TRUE], <<"web.download", IF s.recording THEN 1 ELSE 0>>)
      fn == IF arg.hasI THEN makeLogFilename(arg.i) ELSE [arg.f EXCEPT !.slash = TRUE]
      s2 == IF ~s1.sdOk THEN Emit(s1, <<"web.send", 500>>)
            ELSE IF s1.recording THEN Emit(s1, <<"web.send", 409>>)
            ELSE IF arg.hasI /\ arg.i < 1 THEN Emit(s1, <<"web.send", 400>>)
            ELSE IF ~arg.hasI /\ arg.f.empty THEN Emit(s1, <<"web.send", 400>>)
            ELSE IF fn.dots THEN Emit(s1, <<"web.send", 400>>)
            ELSE IF ~Exists(s1.sdFiles, fn) THEN Emit(s1, <<"web.send", 404>>)
            ELSE StreamFile(s1, fn)
  IN [s2 EXCEPT !.portalBusy = FALSE]

\* the /download requests of the runs: ?i=0, ?i=1, ?i=2, ?f=log_1.csv without
\* and with the leading "/", ?f=, ?f=../x
DownloadArgs ==
  [r \in {"get_i0", "get_i1", "get_i2", "get_f1", "get_sf1", "get_f", "get_dots"} |->
     CASE r = "get_i0" -> ArgI(0)
       [] r = "get_i1" -> ArgI(1)
       [] r = "get_i2" -> ArgI(2)
       [] r = "get_f1" -> ArgF([makeLogFilename(1) EXCEPT !.slash = FALSE])
       [] r = "get_sf1" -> ArgF(makeLogFilename(1))
       [] r = "get_f" -> ArgF([slash |-> FALSE, dots |-> FALSE, empty |-> TRUE, log |-> 0])
       [] OTHER -> ArgF([slash |-> FALSE, dots |-> TRUE, empty |-> FALSE, log |-> 0])]

\* server.handleClient(): at most one request is served per call
WebRequests ==
  {"none", "rec", "saveOn", "saveOff", "saveWarn", "saveBad", "root", "warn", "logs", "latest"}
    \cup DOMAIN DownloadArgs

handleClient(s, req) ==
  CASE req = "rec" -> handleRec(s)
    [] req = "saveOn" -> handleSave(s, [SaveForm(s) EXCEPT !.logEn = TRUE])
    [] req = "saveOff" -> handleSave(s, [SaveForm(s) EXCEPT !.logEn = FALSE])
    [] req = "saveWarn" ->
         handleSave(s, [SaveForm(s) EXCEPT
                          !.warn = [WarnRows(s) EXCEPT ![W_IAT].e = ~@]])
    [] req = "saveBad" -> handleSave(s, [SaveForm(s) EXCEPT !.complete = FALSE])
    [] req = "root" -> handleRoot(s)
    [] req = "warn" -> handleWarn(s)
    [] req = "logs" -> handleLogs(s)
    [] req = "latest" -> handleDownloadLatest(s)
    [] req \in DOMAIN DownloadArgs -> handleDownload(s, DownloadArgs[req])
    [] OTHER -> s

\* ------------------------------------------------------------------------
\* The cooperative loop (dashLoop, wifiLoop)
\* ------------------------------------------------------------------------
RECURSIVE FeedRange(_, _, _, _)
\* onRxByte applied to bytes[lo..hi] in order; the range is split in halves and
\* the first half is evaluated before the second, to keep the evaluation shallow
FeedRange(s, bytes, lo, hi) ==
  IF lo > hi THEN s
  ELSE IF lo = hi THEN onRxByte(s, bytes[lo])
  ELSE LET mid == (lo + hi) \div 2
           left == FeedRange(s, bytes, lo, mid)
       IN IF left.rxCount >= 0 THEN FeedRange(left, bytes, mid + 1, hi) ELSE left

\* while (ECU_SERIAL.available()) onRxByte(ECU_SERIAL.read());
DrainSerial(s, bytes) == [FeedRange(s, bytes, 1, Len(bytes)) EXCEPT !.serialBuf = <<>>]

\* variant: the pass does not look at the mode
dashLoop_ignoresMode(s, touch) ==
  LET s1 == DrainSerial(s, s.serialBuf)
      s2 == IF PollDue(Elapsed(s1.now, s1.lastPoll))
              THEN [pollSpeeduino(s1) EXCEPT !.lastPoll = s1.now]
              ELSE s1
      s3 == lv_timer_handler(s2, touch)
      s4 == IF ~s3.uiPaused /\ Elapsed(s3.now, s3.lastUi) > UI_UPDATE_MS
              THEN LET u == Emit(s3, <<"ui.tick", 0>>) IN
                   [(IF u.scr \in {"dash", "shift"} THEN update_dash_values(u) ELSE u)
                      EXCEPT !.lastUi = s3.now]
              ELSE s3
  IN logIfRecording(s4)

dashLoop(s, touch) ==
  IF s.portalMode THEN s
  ELSE
    LET s1 == DrainSerial(s, s.serialBuf)
        s2 == IF ~s1.portalMode /\ PollDue(Elapsed(s1.now, s1.lastPoll))
                THEN [pollSpeeduino(s1) EXCEPT !.lastPoll = s1.now]
                ELSE s1
        s3 == lv_timer_handler(s2, touch)
        s4 == IF ~s3.uiPaused /\ Elapsed(s3.now, s3.lastUi) > UI_UPDATE_MS
                THEN LET u == Emit(s3, <<"ui.tick", 0>>) IN
                     [(IF u.scr \in {"dash", "shift"} THEN update_dash_values(u) ELSE u)
                        EXCEPT !.lastUi = s3.now]
                ELSE s3
    IN logIfRecording(s4)

\* variant: the portal is requested only from the second station on
wifiLoop_secondStation(s, req) ==
  LET s1 == handleClient(s, req) IN
  IF SampleDue(Elapsed(s1.now, s1.lastWifiClientCheckMs))
    THEN LET n == s1.staCount
             s2 == Emit([s1 EXCEPT !.lastWifiClientCheckMs = s1.now,
                                   !.hist.samples = IF Len(@) < 3 THEN Append(@, n) ELSE @,
                                   !.hist.nSamples = @ + 1],
                        <<"wifi.sample", Elapsed(s1.now, s1.lastWifiClientCheckMs)>>)
         IN setPortalMode(s2, n > 1)
    ELSE s1

wifiLoop(s, req) ==
  LET s1 == handleClient(s, req) IN
  IF SampleDue(Elapsed(s1.now, s1.lastWifiClientCheckMs))
    THEN LET n == s1.staCount
             s2 == Emit([s1 EXCEPT !.lastWifiClientCheckMs = s1.now,
                                   !.hist.samples = IF Len(@) < 3 THEN Append(@, n) ELSE @,
                                   !.hist.nSamples = @ + 1],
                        <<"wifi.sample", Elapsed(s1.now, s1.lastWifiClientCheckMs)>>)
         IN setPortalMode(s2, n > 0)
    ELSE s1

\* ------------------------------------------------------------------------
\* Environment: what the ECU puts on the wire, and how time passes
\* ------------------------------------------------------------------------
\* payload byte at 0-based position i when nothing else is said
Filler(i) == IF i = 5 THEN CMD_N ELSE (3 * i) % 256

PayloadOf(len, rpm) ==
  [i \in 1..len |-> IF i - 1 = IDX_RPM_L THEN rpm % 256
                    ELSE IF i - 1 = IDX_RPM_L + 1 THEN rpm \div 256
                    ELSE Filler(i - 1)]

Frame(type, pl) == <<CMD_N, type, Len(pl)>> \o pl

Chunks ==
  { Frame(1, PayloadOf(MIN_DECODE_LEN, 1000)),
    Frame(1, PayloadOf(MIN_DECODE_LEN, 7000)),
    Frame(1, PayloadOf(MIN_DECODE_LEN - 1, 1000)),
    <<CMD_N, 1, MIN_DECODE_LEN, 0, 0, 0>>,
    <<0>> }

\* the time one pass of loop() may take
TickSteps == {TickMs}

\* millis() when dashSetup sets lastPoll, and when loop() first runs
SetupPollMs == SPLASH_DELAY_MS + 100
BootMs == SetupPollMs + 100

DefaultPrefs ==
  [logEn |-> TRUE, afrFmt |-> AFR_U8_div10, logIdx |-> DEFAULT_LOG_INDEX,
   shEn |-> TRUE, shRpm |-> DEFAULT_SHIFT_RPM, view |-> VIEW_RING, warn |-> defaultsWarn]

EmptyEcu ==
  [rpm |-> 0, iatC |-> 0, cltC |-> 0, vbat |-> 0, afr |-> 0, tps |-> 0, advance |-> 0,
   warmup |-> FALSE, launch |-> FALSE, lastUpdateMs |-> 0]

InitHist ==
  [ticks |-> 0, sent |-> 0, inputs |-> 0, samples |-> <<>>, nSamples |-> 0,
   nEnd |-> 0, nBegin |-> 0, nDraw |-> 0, nReset |-> 0, nEnter |-> 0, nExit |-> 0, nFlip |-> 0,
   peak |-> 0, peakAtSample |-> 0, recAtEntry |-> FALSE,
   sessions |-> <<>>, rowT |-> -1, rowFile |-> 0, boots |-> 0, nRefused |-> 0,
   stored |-> <<0, 0>>, elapsed |-> 0, latest |-> 0, badSaves |-> 0,
   pollT |-> -1, pollGap |-> -1, pollRx |-> WAIT_N, pollPortal |-> FALSE,
   fed |-> <<>>, frames |-> <<>>, free |-> 0,
   decIn |-> [p |-> <<>>, len |-> 0], decPrev |-> [p |-> <<>>, len |-> 0]]

\* the state setup() leaves (loadSettings, showSplashThenStartSerial, dashSetup)
Booted(p, files, sd) ==
  [now |-> BootMs, staCount |-> 0, serialOn |-> TRUE, serialBuf |-> <<>>,
   prefs |-> p, sdFiles |-> files, sdWritable |-> TRUE,
   portalMode |-> FALSE, uiPaused |-> FALSE, lastWifiClientCheckMs |-> 0,
   sdOk |-> sd, recording |-> FALSE, logFile |-> 0, portalBusy |-> FALSE, lastLogMs |-> 0,
   setting_logEnabled |-> p.logEn, setting_logIndex |-> p.logIdx,
   rxState |-> WAIT_N, rxLen |-> 0, rxCount |-> 0,
   payload |-> [i \in 1..MAX_PAYLOAD |-> 0],
   rxBytes |-> 0, lastRxMs |-> 0, lastPoll |-> SetupPollMs,
   ecu |-> EmptyEcu, linkValid |-> FALSE, setting_afrFmt |-> p.afrFmt,
   shiftActive |-> FALSE, shiftBlinkT0 |-> 0, shiftBlinkOn |-> FALSE,
   setting_shiftEnabled |-> p.shEn, setting_shiftRpm |-> p.shRpm,
   shiftBg |-> C_RED, setting_viewMode |-> p.view,
   scr |-> "dash", lastUi |-> 0,
   warnCfg |-> p.warn, settingsRow |-> 0, editMin |-> TRUE,
   prev |-> PrevData, tiles |-> [n \in Tiles |-> BlankTile], lblRpm |-> 0,
   lblLink |-> "STALE", lastStatus |-> 0, ev |-> <<>>, hist |-> InitHist]

Start(s) ==
  /\ now = s.now /\ staCount = s.staCount /\ serialOn = s.serialOn
  /\ serialBuf = s.serialBuf /\ prefs = s.prefs /\ sdFiles = s.sdFiles
  /\ sdWritable = s.sdWritable
  /\ portalMode = s.portalMode /\ uiPaused = s.uiPaused
  /\ lastWifiClientCheckMs = s.lastWifiClientCheckMs
  /\ sdOk = s.sdOk /\ recording = s.recording /\ logFile = s.logFile
  /\ portalBusy = s.portalBusy /\ lastLogMs = s.lastLogMs
  /\ setting_logEnabled = s.setting_logEnabled /\ setting_logIndex = s.setting_logIndex
  /\ rxState = s.rxState /\ rxLen = s.rxLen /\ rxCount = s.rxCount
  /\ payload = s.payload /\ rxBytes = s.rxBytes /\ lastRxMs = s.lastRxMs
  /\ lastPoll = s.lastPoll
  /\ ecu = s.ecu /\ linkValid = s.linkValid /\ setting_afrFmt = s.setting_afrFmt
  /\ shiftActive = s.shiftActive /\ shiftBlinkT0 = s.shiftBlinkT0
  /\ shiftBlinkOn = s.shiftBlinkOn /\ setting_shiftEnabled = s.setting_shiftEnabled
  /\ setting_shiftRpm = s.setting_shiftRpm
  /\ shiftBg = s.shiftBg /\ setting_viewMode = s.setting_viewMode
  /\ scr = s.scr /\ lastUi = s.lastUi
  /\ warnCfg = s.warnCfg /\ settingsRow = s.settingsRow /\ editMin = s.editMin
  /\ prev = s.prev /\ tiles = s.tiles /\ lblRpm = s.lblRpm /\ lblLink = s.lblLink
  /\ lastStatus = s.lastStatus /\ ev = s.ev /\ hist = s.hist

Init == Start(Booted(DefaultPrefs, <<>>, TRUE))

\* the state a step of the full system starts from: the calls and frames of
\* the previous step are forgotten
St0 == [St EXCEPT !.hist.frames = <<>>]

\* the counters of the history advance by the calls the step made;
\* hist.recAtEntry tells whether the last entry to the portal stopped a
\* recording
Finish(s) ==
  [s EXCEPT !.hist.recAtEntry =
              IF \E i \in 1..Len(s.ev) : s.ev[i] = <<"serial.end", 0>>
                THEN \E i, j \in 1..Len(s.ev) :
                        i < j /\ s.ev[i] = <<"serial.end", 0>> /\ s.ev[j][1] = "log.close"
                ELSE @,
            !.hist.badSaves = @ + Count(s.ev, <<"web.save", 0>>),
            !.hist.nEnd = @ + Count(s.ev, <<"serial.end", 0>>),
            !.hist.nBegin = @ + Count(s.ev, <<"serial.begin", 0>>),
            !.hist.nDraw = @ + Count(s.ev, <<"tft.drawPortal", 0>>),
            !.hist.nReset = @ + Count(s.ev, <<"rx.reset", 0>>),
            !.hist.nEnter = @ + Count(s.ev, <<"shift.enter", 0>>),
            !.hist.nExit = @ + Count(s.ev, <<"shift.exit", 0>>),
            !.hist.nFlip = @ + Cardinality({i \in 1..Len(s.ev) : s.ev[i][1] = "shift.flip"})]

\* ------------------------------------------------------------------------
\* Actions of the full system
\* ------------------------------------------------------------------------
\* void loop() { dashLoop(); wifiLoop(); }  One pass, d milliseconds after the
\* previous one, with at most one touch press and one web request in it.
loop(s, d, touch, req) ==
  LET s0 == [s EXCEPT !.now = (@ + d) % MillisMod] IN
  wifiLoop(dashLoop(s0, touch), req)

\* the widgets pressed in the runs of the full system
SpecTouches == {"none", "rec", "set", "back", "save", "logsw"}

\* the web requests made in the runs of the full system
SpecRequests == {"none", "rec", "saveOn", "saveOff"}

\* a user input (touch press, web request) or a chunk on the wire
Stimuli == hist.sent + hist.inputs

Loop ==
  /\ hist.ticks < MaxTicks
  /\ \E d \in TickSteps, req \in WebRequests \cap SpecRequests,
        touch \in (IF portalMode THEN {"none"} ELSE TouchOn(scr) \cap SpecTouches) :
       LET n == (IF touch = "none" THEN 0 ELSE 1) + (IF req = "none" THEN 0 ELSE 1) IN
       /\ Stimuli + n <= MaxStimuli
       /\ req # "none" => staCount > 0
       /\ Commit(Finish([loop(St0, d, touch, req) EXCEPT
                           !.hist.ticks = @ + 1, !.hist.inputs = @ + n]))

EcuSend ==
  /\ serialOn /\ serialBuf = <<>>
  /\ Stimuli < MaxStimuli
  /\ \E c \in Chunks :
       Commit([St0 EXCEPT !.serialBuf = c, !.hist.sent = @ + 1])

StationChange ==
  /\ \E n \in (0..WIFI_AP_MAX_CONN) \ {staCount} :
       Commit([St0 EXCEPT !.staCount = n])

Next == Loop \/ EcuSend \/ StationChange

Spec == Init /\ [][Next]_vars

\* ------------------------------------------------------------------------
\* The dashboard and its settings editor, with no station on the access point
\* ------------------------------------------------------------------------
\* frames of 40 bytes with a chosen rpm and raw intake-temperature byte
UiFrame(rpm, iat) ==
  Frame(1, [PayloadOf(MIN_DECODE_LEN, rpm) EXCEPT ![IDX_IAT + 1] = iat])

\* rpm above and below the default shift threshold; intake temperature at
\* the default upper limit (60 C) and one degree above it
UiChunks == { UiFrame(7000, 100), UiFrame(6000, 101), UiFrame(6000, 100) }

\* the widgets pressed in these runs
UiTouches == {"none", "set", "back", "sw_iat", "sw_shift", "row_iat", "minmax", "minus"}

UiStimuli == hist.sent + hist.inputs

UiLoop ==
  /\ hist.ticks < MaxUiTicks
  /\ \E touch \in TouchOn(scr) \cap UiTouches :
       LET n == IF touch = "none" THEN 0 ELSE 1 IN
       /\ UiStimuli + n <= MaxUiStimuli
       /\ Commit(Finish([loop(St0, TickMs, touch, "none") EXCEPT
                           !.hist.ticks = @ + 1, !.hist.inputs = @ + n]))

UiSend ==
  /\ serialOn /\ serialBuf = <<>>
  /\ UiStimuli < MaxUiStimuli
  /\ \E c \in UiChunks :
       Commit([St0 EXCEPT !.serialBuf = c, !.hist.sent = @ + 1])

NextUi == UiLoop \/ UiSend

SpecUi == Init /\ [][NextUi]_vars

\* ------------------------------------------------------------------------
\* The mode arbiter and the shift light: stations come and go, passes of
\* loop() take a short or a long time, no touch press and no web request
\* ------------------------------------------------------------------------
ModeSteps == {ShortMs, TickMs}

\* the longest time between two evaluations of the dashboard in Normal mode:
\* a pass that finds UI_UPDATE_MS elapsed does not evaluate, the next one does
MaxUiGap == UI_UPDATE_MS + TickMs

ModeChunks == { Frame(1, PayloadOf(MIN_DECODE_LEN, 7000)),
                Frame(1, PayloadOf(MIN_DECODE_LEN, 1000)) }

\* hist.peak is the highest station count since the last sample; a pass
\* that samples moves it to hist.peakAtSample
FinishMode(s) ==
  IF \E i \in 1..Len(s.ev) : s.ev[i][1] = "wifi.sample"
    THEN [s EXCEPT !.hist.peakAtSample = s.hist.peak, !.hist.peak = s.staCount]
    ELSE s

ModeLoop ==
  /\ hist.ticks < MaxModeTicks
  /\ \E d \in ModeSteps :
       Commit(FinishMode(Finish([loop(St0, d, "none", "none") EXCEPT
                                   !.hist.ticks = @ + 1])))

ModeSend ==
  /\ serialOn /\ serialBuf = <<>>
  /\ hist.sent < MaxModeFrames
  /\ \E c \in ModeChunks :
       Commit([St0 EXCEPT !.serialBuf = c, !.hist.sent = @ + 1])

ModeStation ==
  /\ \E n \in {0, 1} \ {staCount} :
       Commit([St0 EXCEPT !.staCount = n,
                          !.hist.peak = IF n > @ THEN n ELSE @])

NextMode == ModeLoop \/ ModeSend \/ ModeStation

SpecMode == Init /\ [][NextMode]_vars

\* ------------------------------------------------------------------------
\* The recording gate: the REC button and the /rec request, a card that may
\* refuse a new file, restarts; short passes of loop(), no telemetry
\* ------------------------------------------------------------------------
\* setup() may find logging disabled in the preferences, or no card
InitRec ==
  \E en \in BOOLEAN, sd \in BOOLEAN :
    Start(Booted([DefaultPrefs EXCEPT !.logEn = en], <<>>, sd))

\* hist.nRefused counts the starts that were refused
FinishRec(s) ==
  [s EXCEPT !.hist.nRefused = @ + Cardinality({i \in 1..Len(s.ev) : s.ev[i][1] = "start.refused"})]

RecLoop ==
  /\ hist.ticks < MaxRecTicks
  /\ \E d \in {ShortMs}, req \in {"none", "rec"},
        touch \in (IF portalMode THEN {"none"} ELSE {"none", "rec"}) :
       LET n == (IF touch = "none" THEN 0 ELSE 1) + (IF req = "none" THEN 0 ELSE 1) IN
       /\ hist.inputs + n <= MaxRecInputs
       /\ req # "none" => staCount > 0
       /\ Commit(FinishRec(Finish([loop(St0, d, touch, req) EXCEPT
                                     !.hist.ticks = @ + 1, !.hist.inputs = @ + n])))

RecStation ==
  /\ \E n \in {0, 1} \ {staCount} : Commit([St0 EXCEPT !.staCount = n])

\* the card fills up or is write-protected, or accepts files again
RecCard == Commit([St0 EXCEPT !.sdWritable = ~@])

\* ESP.restart() (the /reboot request) or a reset: setup() runs again on the
\* preferences and the card as they are; no power is lost
RecBoot ==
  /\ hist.boots < MaxRecBoots
  /\ Commit([Booted(prefs, sdFiles, sdOk) EXCEPT
               !.sdWritable = sdWritable, !.staCount = staCount,
               !.hist = [hist EXCEPT !.boots = @ + 1, !.rowT = -1, !.frames = <<>>]])

NextRec == RecLoop \/ RecStation \/ RecCard \/ RecBoot

SpecRec == InitRec /\ [][NextRec]_vars

\* ------------------------------------------------------------------------
\* The web server beside a recording: the REC button, the pages and the
\* downloads; short passes of loop(), no telemetry
\* ------------------------------------------------------------------------
\* the requests made in these runs
WebSpecRequests ==
  {"none", "rec", "root", "warn", "logs", "latest", "saveBad", "saveOn"} \cup DOMAIN DownloadArgs

\* setup() on a new device, or on one that recorded session 1 before: its
\* file of a header and two rows is on the card and the counter is at 2
InitWeb ==
  \E sd \in BOOLEAN, before \in {0, 1} :
    Start([Booted([DefaultPrefs EXCEPT !.logIdx = DEFAULT_LOG_INDEX + before],
                  [i \in 1..before |-> 3], sd)
             EXCEPT !.hist.latest = before])

WebLoop ==
  /\ hist.ticks < MaxWebTicks
  /\ \E req \in WebRequests \cap WebSpecRequests,
        touch \in (IF portalMode THEN {"none"} ELSE {"none", "rec"}) :
       LET n == (IF touch = "none" THEN 0 ELSE 1) + (IF req = "none" THEN 0 ELSE 1) IN
       /\ hist.inputs + n <= MaxWebInputs
       /\ req # "none" => staCount > 0
       /\ Commit(Finish([loop(St0, ShortMs, touch, req) EXCEPT
                           !.hist.ticks = @ + 1, !.hist.inputs = @ + n]))

WebStation ==
  /\ \E n \in {0, 1} \ {staCount} : Commit([St0 EXCEPT !.staCount = n])

\* ESP.restart() (the /reboot request) or a reset, no power is lost
WebBoot ==
  /\ hist.boots < MaxWebBoots
  /\ Commit([Booted(prefs, sdFiles, sdOk) EXCEPT
               !.staCount = staCount,
               !.hist = [hist EXCEPT !.boots = @ + 1, !.rowT = -1, !.frames = <<>>]])

NextWeb == WebLoop \/ WebStation \/ WebBoot

SpecWeb == InitWeb /\ [][NextWeb]_vars

\* ------------------------------------------------------------------------
\* The settings editor: presses on the dashboard and the settings screen
\* and forms posted to /save, each delivered to its handler
\* ------------------------------------------------------------------------
\* shift thresholds a device may have stored: the default, and two values
\* within a step of the limits
EditRpms == {50, DEFAULT_SHIFT_RPM, RPM_MAX - 50}

InitEdit ==
  \E rpm \in EditRpms : Start(Booted([DefaultPrefs EXCEPT !.shRpm = rpm], <<>>, TRUE))

\* the widgets pressed in these runs
EditTouches ==
  {"set", "back", "rec", "save", "defaults", "row_shift", "sw_shift", "sw_view",
   "minmax", "plus", "minus"}

\* the AFR row of the warnings form as posted: limits in order, equal,
\* crossed, and texts that are not finite decimals
EditRows ==
  { [e |-> TRUE, min |-> NumText(1200), max |-> NumText(1200)],
    [e |-> TRUE, min |-> NumText(1400), max |-> NumText(1200)],
    [e |-> FALSE, min |-> NumText(1000), max |-> NumText(1650)],
    [e |-> TRUE, min |-> NanText, max |-> NumText(1650)],
    [e |-> TRUE, min |-> InfText, max |-> NegInfText],
    [e |-> TRUE, min |-> JunkText, max |-> NumText(1650)] }

\* the forms posted in these runs: the root page with a shift threshold
\* typed in, and the warnings page with its AFR row edited
EditForms(s) ==
  { [SaveForm(s) EXCEPT !.shiftRpm = r] : r \in {-100, RPM_MAX + 1} }
    \cup { [SaveForm(s) EXCEPT !.warn = [WarnRows(s) EXCEPT ![W_AFR] = row]] : row \in EditRows }

EditTouch ==
  /\ hist.inputs < MaxEdits
  /\ ~portalMode
  /\ \E touch \in (TouchOn(scr) \cap EditTouches) :
       Commit([lv_timer_handler(St0, touch) EXCEPT !.hist.inputs = @ + 1])

EditPost ==
  /\ hist.inputs < MaxEdits
  /\ \E form \in EditForms(St0) :
       Commit([handleSave(St0, form) EXCEPT !.hist.inputs = @ + 1])

NextEdit == EditTouch \/ EditPost

SpecEdit == InitEdit /\ [][NextEdit]_vars

\* ------------------------------------------------------------------------
\* The endless run in Normal mode: loop() is called for ever, the ECU puts
\* a bounded number of chunks on the wire and then falls silent; no station,
\* no touch press
\* ------------------------------------------------------------------------
\* the time of a pass: it divides the period of the clock, so that the
\* clock readings of an endless run are finitely many
LiveMs == MillisMod \div 512

\* a complete frame, and frames cut short after the command byte, after the
\* type byte and inside the payload
LiveChunks ==
  { Frame(1, PayloadOf(MIN_DECODE_LEN, 1000)),
    <<CMD_N>>, <<CMD_N, 1>>, <<CMD_N, 1, MIN_DECODE_LEN, 0, 0, 0>> }

\* the passes are counted up to MaxLiveLead, the samples of the station
\* count not at all
LiveLoop ==
  Commit([Finish(loop(St0, LiveMs, "none", "none")) EXCEPT
            !.hist.ticks = IF @ < MaxLiveLead THEN @ + 1 ELSE @,
            !.hist.nSamples = 0, !.hist.samples = <<>>])

LiveSend ==
  /\ serialOn /\ serialBuf = <<>>
  /\ hist.sent < MaxLiveSent /\ hist.ticks < MaxLiveLead
  /\ \E c \in LiveChunks :
       Commit([St0 EXCEPT !.serialBuf = c, !.hist.sent = @ + 1])

NextLive == LiveLoop \/ LiveSend

\* what a pass of loop() does to the clock; of the steps of NextLive exactly
\* those of LiveLoop are LoopPass steps
LoopPass == now' = (now + LiveMs) % MillisMod
\* loop() is called again and again: a pass is possible in every state, and
\* passes are made for ever
SpecLive == Init /\ [][NextLive]_vars /\ WF_now(LoopPass)

\* ------------------------------------------------------------------------
\* The clock alone: a reading of millis() is stored (hist.stored) and time
\* passes (hist.elapsed milliseconds since then)
\* ------------------------------------------------------------------------
\* readings far from any carry, below the carry out of the low half, and
\* below the wrap of the 32-bit counter to 0
ClockStarts ==
  { <<0, 4200>>, <<7, 65000>>, <<7, 65535>>,
    <<MillisMod - 1, MillisMod - 1>>, <<MillisMod - 1, MillisMod - 100>>,
    <<MillisMod - 1, MillisMod - 701>>, <<MillisMod - 1, 30000>> }

ClockSteps == {1, ShortMs, TickMs}

InitClock ==
  \E t \in ClockStarts :
    Start([Booted(DefaultPrefs, <<>>, TRUE) EXCEPT !.hist.stored = t])

ClockTick ==
  \E d \in ClockSteps :
    /\ hist.elapsed + d <= MaxElapsed
    /\ Commit([St0 EXCEPT !.hist.elapsed = @ + d])

NextClock == ClockTick

SpecClock == InitClock /\ [][NextClock]_vars

\* ------------------------------------------------------------------------
\* The receiver alone, fed an arbitrary byte stream from WaitSync
\* ------------------------------------------------------------------------
\* a snapshot decoded earlier, so that the stream is also fed to a receiver
\* whose link is up
SomeSnapshot == Snapshot(PayloadOf(MIN_DECODE_LEN, 1000), MIN_DECODE_LEN, AFR_U8_div10, BootMs)

\* the bytes the stream may continue with: in each receiver state, bytes of
\* every kind that state tells apart, and CMD_N everywhere
LenBytes == {0, 1, 2, MIN_DECODE_LEN - 1, MIN_DECODE_LEN, CMD_N, MAX_PAYLOAD, MAX_PAYLOAD + 1, 255}

RxInputs ==
  CASE rxState = WAIT_N -> {0, CMD_N}
    [] rxState = WAIT_TYPE -> {1, CMD_N}
    [] rxState = WAIT_LEN -> LenBytes
    [] rxState = READ_PAYLOAD ->
         IF rxCount < FreeLen THEN {0, 1, CMD_N} ELSE {Filler(rxCount)}

InitRx ==
  \E up \in BOOLEAN :
    Start([Booted(DefaultPrefs, <<>>, TRUE) EXCEPT
             !.linkValid = up, !.ecu = IF up THEN SomeSnapshot ELSE EmptyEcu])

\* one byte of the stream goes through onRxByte; the history keeps the stream
\* and the frames handed to the decoder
RxFeed ==
  \E b \in RxInputs :
    LET free == ~(rxState = READ_PAYLOAD /\ rxCount >= FreeLen) IN
    /\ free => hist.free < MaxFree
    /\ Commit([onRxByte(St, b) EXCEPT !.hist.fed = Append(@, b),
                                      !.hist.free = IF free THEN @ + 1 ELSE @])

NextRx == RxFeed

SpecRx == InitRx /\ [][NextRx]_vars

\* ------------------------------------------------------------------------
\* The decoder alone, handed payloads of chosen content and length
\* ------------------------------------------------------------------------
\* the raw bytes at the offsets the decoder reads
DecProfiles ==
  { [rpmL |-> 232, rpmH |-> 3, iat |-> 60, clt |-> 130, vbat |-> 138, afrL |-> 150,
     afrH |-> 0, adv |-> 25, tps |-> 100, eng |-> 8, sp |-> 0],
    [rpmL |-> 0, rpmH |-> 0, iat |-> 0, clt |-> 0, vbat |-> 0, afrL |-> 0,
     afrH |-> 0, adv |-> 0, tps |-> 0, eng |-> 0, sp |-> 0],
    [rpmL |-> 255, rpmH |-> 255, iat |-> 255, clt |-> 255, vbat |-> 255, afrL |-> 255,
     afrH |-> 255, adv |-> 255, tps |-> 255, eng |-> 255, sp |-> 255],
    [rpmL |-> 100, rpmH |-> 25, iat |-> 40, clt |-> 41, vbat |-> 115, afrL |-> 150,
     afrH |-> 5, adv |-> 1, tps |-> 1, eng |-> 247, sp |-> 252],
    [rpmL |-> 232, rpmH |-> 3, iat |-> 60, clt |-> 130, vbat |-> 138, afrL |-> 147,
     afrH |-> 0, adv |-> 25, tps |-> 200, eng |-> 8, sp |-> 1],
    [rpmL |-> 232, rpmH |-> 3, iat |-> 60, clt |-> 130, vbat |-> 138, afrL |-> 147,
     afrH |-> 0, adv |-> 25, tps |-> 201, eng |-> 0, sp |-> 2] }

DecLens == {1, AFR_INDEX + 1, MIN_DECODE_LEN - 1, MIN_DECODE_LEN, MIN_DECODE_LEN + 1, MAX_PAYLOAD}

\* the receive buffer holding a payload of len bytes with the raw bytes of
\* profile f; the positions from len on are not part of the payload and hold
\* whatever an earlier frame left there
DecBuffer(len, f) ==
  [i \in 1..MAX_PAYLOAD |->
     IF i > len THEN 255
     ELSE CASE i - 1 = IDX_RPM_L -> f.rpmL
            [] i - 1 = IDX_RPM_L + 1 -> f.rpmH
            [] i - 1 = IDX_IAT -> f.iat
            [] i - 1 = IDX_CLT -> f.clt
            [] i - 1 = IDX_VBAT10 -> f.vbat
            [] i - 1 = AFR_INDEX -> f.afrL
            [] i - 1 = AFR_INDEX + 1 -> f.afrH
            [] i - 1 = IDX_ADVANCE -> f.adv
            [] i - 1 = IDX_TPS -> f.tps
            [] i - 1 = IDX_ENGINE -> f.eng
            [] i - 1 = IDX_SPARKBF -> f.sp
            [] OTHER -> Filler(i - 1)]

InitDec ==
  \E fmt \in {AFR_U16_x100, AFR_U16_x10, AFR_U8_div10} :
    Start(Booted([DefaultPrefs EXCEPT !.afrFmt = fmt], <<>>, TRUE))

\* decodePayload(payload, rxLen) on a buffer of chosen content, TickMs after
\* the previous call
DecodeStep ==
  /\ hist.ticks < MaxDecodes
  /\ \E f \in DecProfiles, len \in DecLens :
       LET p == DecBuffer(len, f)
           s0 == [St EXCEPT !.now = (@ + TickMs) % MillisMod, !.payload = p, !.rxLen = len]
       IN Commit([decodePayload(s0, p, len) EXCEPT
                    !.hist.ticks = @ + 1, !.hist.decPrev = hist.decIn,
                    !.hist.decIn = [p |-> p, len |-> len]])

NextDec == DecodeStep

SpecDec == InitDec /\ [][NextDec]_vars

\* ------------------------------------------------------------------------
\* Properties
\* ------------------------------------------------------------------------
Called(name) == \E i \in 1..Len(ev) : ev[i][1] = name

\* the i-th call of the step is the first write to a log file just opened
FirstWrite(i) ==
  /\ i > 1
  /\ ev[i][1] = "log.println"
  /\ ev[i - 1] = <<"sd.open", ev[i][2]>>

\* C1: when a recording is started, the session counter is written to the
\* preferences (with a value above the new file's number) before the first
\* line is written to the new log file.
C1_CounterPersistedBeforeFirstWrite ==
  \A i \in 1..Len(ev) :
    FirstWrite(i) =>
      \E j \in 1..(i - 1) : ev[j][1] = "prefs.putLogIdx" /\ ev[j][2] > ev[i][2]

\* C2: while the mode is Portal the serial source is stopped and no recording
\* is active (no log file is open); a step that enters Portal ends the serial
\* source and, if a recording was active, flushes and closes its file.
C2_PortalQuiet == portalMode => (~serialOn /\ ~recording /\ logFile = 0)

C2_EnterPortalStops ==
  (~portalMode /\ portalMode') =>
     LET open == ({logFile} \ {0}) \cup {ev'[i][2] : i \in {j \in 1..Len(ev') : ev'[j][1] = "sd.open"}}
     IN /\ \E i \in 1..Len(ev') : ev'[i] = <<"serial.end", 0>>
        /\ ~serialOn' /\ ~recording' /\ logFile' = 0
        /\ \A k \in open :
             \E i, j \in 1..Len(ev') :
                i < j /\ ev'[i] = <<"log.flush", k>> /\ ev'[j] = <<"log.close", k>>

C2_PortalStopsSourceAndRecording == []C2_PortalQuiet /\ [][C2_EnterPortalStops]_vars

\* C2 witness: Portal was entered in this step while a recording was active,
\* and its file was closed.
C2_Witness ==
  /\ portalMode /\ ~recording
  /\ Called("serial.end") /\ Called("log.close")

\* the counters of mode-transition calls
ModeCalls == <<hist.nEnd, hist.nBegin, hist.nDraw, hist.nReset>>

\* C3: a sampled mode request whose target equals the current mode makes no
\* transition call at all; one whose target differs makes exactly one
\* transition (entering Portal: the serial source ended once and the portal
\* screen drawn once; entering Normal: the source begun once and the receiver
\* reset once).
C3_RequestStep ==
  (hist'.nSamples = hist.nSamples + 1) =>
     IF (staCount > 0) = portalMode
       THEN portalMode' = portalMode /\ ModeCalls' = ModeCalls /\ serialOn' = serialOn
       ELSE /\ portalMode' = ~portalMode
            /\ ModeCalls' = IF portalMode'
                              THEN <<hist.nEnd + 1, hist.nBegin, hist.nDraw + 1, hist.nReset>>
                              ELSE <<hist.nEnd, hist.nBegin + 1, hist.nDraw, hist.nReset + 1>>

C3_IdempotentModeRequest == [][C3_RequestStep]_vars

\* C3 witness: Portal was requested at two consecutive samples and the serial
\* source was ended once, the portal screen drawn once.
C3_Witness ==
  /\ hist.nSamples = 2 /\ Len(hist.samples) = 2
  /\ hist.samples[1] > 0 /\ hist.samples[2] > 0
  /\ portalMode /\ hist.nEnd = 1 /\ hist.nDraw = 1

\* C4: for the sampled station counts 0, 1, 0 from Normal mode there are
\* exactly two transitions: after the second sample the source has been
\* ended once and not begun, after the third it has been ended once and
\* begun once and the mode is Normal again.
C4_ZeroOneZero ==
  /\ (hist.nSamples = 2 /\ hist.samples = <<0, 1>>) =>
        (portalMode /\ ~serialOn /\ hist.nEnd = 1 /\ hist.nBegin = 0)
  /\ (hist.nSamples = 3 /\ hist.samples = <<0, 1, 0>>) =>
        (~portalMode /\ serialOn /\ hist.nEnd = 1 /\ hist.nBegin = 1
           /\ hist.nDraw = 1 /\ hist.nReset = 1)

\* C4 witness: the three samples 0, 1, 0 have been taken.
C4_Witness == hist.nSamples = 3 /\ hist.samples = <<0, 1, 0>>

\* C5: a step that returns from Portal to Normal leaves the receiver in
\* WaitSync with nothing buffered and the link invalid; and the link becomes
\* valid only in a step in which a payload of at least 40 bytes was decoded.
C5_ReturnResets ==
  (portalMode /\ ~portalMode') =>
     /\ rxState' = WAIT_N /\ rxCount' = 0 /\ rxLen' = 0
     /\ serialBuf' = <<>> /\ ~linkValid'

C5_ValidOnlyByDecode ==
  (~linkValid /\ linkValid') =>
     \E i \in 1..Len(ev') : ev'[i][1] = "decode" /\ ev'[i][2] >= MIN_DECODE_LEN

C5_ResetOnReturnToNormal == [][C5_ReturnResets /\ C5_ValidOnlyByDecode]_vars

\* C5 witness: after a return from Portal that discarded a frame cut short,
\* a complete frame was decoded and the link is valid again.
C5_Witness ==
  /\ hist.nReset = 1 /\ ~portalMode /\ linkValid /\ Called("decode")
  /\ hist.sent = 2 /\ rxBytes = MIN_DECODE_LEN + 3 + 6
  /\ ecu.rpm = 1000

\* C9: every poll request was written with the receiver in WaitSync and the
\* mode Normal, and at least 100 ms after the previous request.
C9_PollOnlyIdle ==
  hist.pollT # -1 =>
     /\ hist.pollRx = WAIT_N /\ ~hist.pollPortal
     /\ hist.pollGap = -1 \/ hist.pollGap >= POLL_MS

\* C9 witness: a second poll request was written, and a pass in which the poll
\* was due wrote none because the receiver was inside a frame.
C9_Witness ==
  /\ hist.pollGap # -1
  /\ lastPoll = now /\ ~Called("serial.write") /\ rxState = READ_PAYLOAD

\* C10: after a dashboard tick, if more than 700 ms have passed since the
\* last successful decode, the link-valid flag is false.
C10_StaleSnapshotInvalid ==
  (Called("ui.tick") /\ Elapsed(now, ecu.lastUpdateMs) > LINK_STALE_MS) => ~linkValid

\* a complete well-formed frame starts at position p of the stream
WellFormedAt(str, p) ==
  /\ p + 2 <= Len(str)
  /\ str[p] = CMD_N
  /\ str[p + 2] >= 1 /\ str[p + 2] <= MAX_PAYLOAD
  /\ p + 2 + str[p + 2] <= Len(str)

PayloadAt(str, p) == SubSeq(str, p + 3, p + 2 + str[p + 2])

RECURSIVE FramesAt(_, _)
\* the payloads of the frames that start at the positions of starts, in
\* stream order
FramesAt(str, starts) ==
  IF starts = {} THEN <<>>
  ELSE LET p == CHOOSE q \in starts : \A r \in starts : q <= r
       IN <<PayloadAt(str, p)>> \o FramesAt(str, starts \ {p})

RECURSIVE SyncStarts(_, _)
\* the positions, not below p, at which a receiver that is in WaitSync at p
\* finds a complete well-formed frame: it skips bytes other than the sync
\* byte, skips a three-byte header with a bad length, and skips a whole frame
SyncStarts(str, p) ==
  IF p + 2 > Len(str) THEN {}
  ELSE IF str[p] # CMD_N THEN SyncStarts(str, p + 1)
  ELSE IF str[p + 2] = 0 \/ str[p + 2] > MAX_PAYLOAD THEN SyncStarts(str, p + 3)
  ELSE IF p + 2 + str[p + 2] > Len(str) THEN {}
  ELSE {p} \cup SyncStarts(str, p + 3 + str[p + 2])

\* C6 (as stated): every well-formed frame embedded anywhere in the stream is
\* handed to the decoder exactly once, with its payload, in arrival order.
C6_EveryEmbeddedFrameEmitted ==
  hist.frames = FramesAt(hist.fed, {p \in 1..Len(hist.fed) : WellFormedAt(hist.fed, p)})

\* C6 (amended): the frames handed to the decoder are exactly the well-formed
\* frames whose sync byte the receiver reads in WaitSync, each once, with
\* exactly its L payload bytes, in arrival order.
C6_SyncedFramesEmitted ==
  hist.frames = FramesAt(hist.fed, SyncStarts(hist.fed, 1))

\* C6 witness: two frames were handed over in order, the first of one byte
\* and the second of the maximal length.
C6_Witness ==
  /\ Len(hist.frames) = 2
  /\ Len(hist.frames[1]) = 1 /\ Len(hist.frames[2]) = MAX_PAYLOAD

\* the buffer writes of the step stay inside payload[0..MAX_PAYLOAD-1]
WritesInside ==
  \A i \in 1..Len(ev) :
    ev[i][1] = "payload.write" => (ev[i][2] >= 0 /\ ev[i][2] < MAX_PAYLOAD)

\* C7 (as stated): in every state 0 <= rxCount <= rxLen <= MAX_PAYLOAD, and
\* every buffer write uses an index below MAX_PAYLOAD.
C7_LenNeverAboveMax ==
  /\ 0 <= rxCount /\ rxCount <= rxLen /\ rxLen <= MAX_PAYLOAD
  /\ WritesInside

\* C7 (amended): in every state 0 <= rxCount <= rxLen <= 255; while the
\* receiver reads a payload 1 <= rxLen <= MAX_PAYLOAD and rxCount < rxLen; and
\* every buffer write uses an index below MAX_PAYLOAD.
C7_BufferSafe ==
  /\ 0 <= rxCount /\ rxCount <= rxLen /\ rxLen <= 255
  /\ rxState = READ_PAYLOAD => (1 <= rxLen /\ rxLen <= MAX_PAYLOAD /\ rxCount < rxLen)
  /\ WritesInside

\* C7 witness: the last byte of a payload of the maximal length was written.
C7_Witness ==
  /\ Len(ev) >= 3
  /\ ev[1] = <<"payload.write", MAX_PAYLOAD - 1>>
  /\ ev[2] = <<"frame", MAX_PAYLOAD>>
  /\ ev[Len(ev)] = <<"decode", MAX_PAYLOAD>>

\* the byte fed by the step
FedByte == hist'.fed[Len(hist'.fed)]

\* C8: in WaitLength a byte L with 0 < L <= 200 starts ReadPayload for L
\* bytes; any other byte returns the receiver to WaitSync, hands no frame to
\* the decoder and leaves the snapshot and the link-valid flag as they were.
C8_LengthStep ==
  (rxState = WAIT_LEN /\ Len(hist'.fed) = Len(hist.fed) + 1) =>
     IF 0 < FedByte /\ FedByte <= MAX_PAYLOAD
       THEN rxState' = READ_PAYLOAD /\ rxLen' = FedByte /\ rxCount' = 0
       ELSE /\ rxState' = WAIT_N
            /\ hist'.frames = hist.frames /\ ecu' = ecu /\ linkValid' = linkValid
            /\ payload' = payload

C8_LengthByteCheck == [][C8_LengthStep]_vars

\* C8 witness: with the link up, a length byte above the maximum was
\* rejected and a length byte equal to the maximum was accepted.
C8_Witness ==
  /\ linkValid /\ ecu = SomeSnapshot
  /\ Len(hist.fed) = 6 /\ hist.fed[3] = MAX_PAYLOAD + 1 /\ hist.fed[6] = MAX_PAYLOAD
  /\ rxState = READ_PAYLOAD /\ rxLen = MAX_PAYLOAD /\ hist.frames = <<>>

\* C12: a step that completes a frame of fewer than 40 payload bytes decodes
\* nothing: the snapshot (timestamp included) and the link-valid flag are as
\* before, and the receiver is back in WaitSync.
C12_ShortFrameStep ==
  (\E i \in 1..Len(ev') : ev'[i][1] = "frame" /\ ev'[i][2] < MIN_DECODE_LEN) =>
     /\ ecu' = ecu /\ linkValid' = linkValid
     /\ rxState' = WAIT_N
     /\ \A i \in 1..Len(ev') : ev'[i][1] \notin {"decode", "read"}

C12_ShortPayloadRejected == [][C12_ShortFrameStep]_vars

\* C12 witness: with the link up, a frame of 39 payload bytes was completed
\* and the snapshot decoded earlier is still there.
C12_Witness ==
  /\ \E i \in 1..Len(ev) : ev[i] = <<"frame", MIN_DECODE_LEN - 1>>
  /\ linkValid /\ ecu = SomeSnapshot /\ rxState = WAIT_N

\* the snapshot without its timestamp
Fields(e) == [f \in (DOMAIN e) \ {"lastUpdateMs"} |-> e[f]]

\* the payload indices a decode must read under format fmt
FixedOffsets(fmt) ==
  {2, 6, 7, 9, 10, 14, 15, 23, 24, 31}
  \cup (IF fmt \in {AFR_U16_x100, AFR_U16_x10} THEN {11} ELSE {})

\* a payload of at least 40 bytes handed over in the last step was decoded;
\* and a decode reads every fixed offset, each inside the payload, and fills
\* no field with a default
C13_ReadsInside ==
  /\ (hist.ticks > 0 /\ hist.decIn.len >= MIN_DECODE_LEN) =>
        (Called("decode") /\ linkValid /\ ecu.lastUpdateMs = now)
  /\ Called("decode") =>
        /\ ~Called("afr.default")
        /\ {ev[i][2] : i \in {j \in 1..Len(ev) : ev[j][1] = "read"}}
             = FixedOffsets(setting_afrFmt)
        /\ \A i \in 1..Len(ev) :
             ev[i][1] = "read" => (0 <= ev[i][2] /\ ev[i][2] < hist.decIn.len)

\* decoding the same payload again gives the same field values
C13_SameInSameOut ==
  (hist'.ticks = hist.ticks + 1 /\ hist'.decIn = hist.decIn
     /\ hist.decIn.len >= MIN_DECODE_LEN /\ setting_afrFmt' = setting_afrFmt) =>
     Fields(ecu') = Fields(ecu)

\* C13: every payload of 40 to 200 bytes is decoded, every fixed offset read
\* lies inside the payload so that no field is default-filled, and decoding
\* the same payload twice under the same AFR format gives the same fields.
C13_DecodeTotalDeterministic == []C13_ReadsInside /\ [][C13_SameInSameOut]_vars

\* C13 witness: a payload of exactly 40 bytes was decoded twice in a row
\* under a 16-bit AFR format.
C13_Witness ==
  /\ hist.ticks = 2 /\ hist.decIn = hist.decPrev /\ hist.decIn.len = MIN_DECODE_LEN
  /\ setting_afrFmt = AFR_U16_x100 /\ Called("decode")

\* C14: after a decode, rpm is the little-endian word at the RPM offset,
\* within 0..65535; the bytes E8 03 give 1000.
C14_RpmLittleEndian ==
  Called("decode") =>
     LET lo == At(hist.decIn.p, 14)
         hi == At(hist.decIn.p, 15)
     IN /\ ecu.rpm = lo + 256 * hi
        /\ ecu.rpm >= 0 /\ ecu.rpm <= 65535
        /\ (lo = 232 /\ hi = 3) => ecu.rpm = 1000

\* C14 witness: the bytes E8 03 at the RPM offset were decoded.
C14_Witness ==
  /\ Called("decode")
  /\ At(hist.decIn.p, 14) = 232 /\ At(hist.decIn.p, 15) = 3 /\ ecu.rpm = 1000

\* C15: after a decode the AFR (in hundredths) is the one the configured
\* format gives, whatever the data: the word at offset 10 for 16-bit
\* hundredths, ten times the word for 16-bit tenths, ten times the byte at
\* offset 10 for 8-bit tenths; with 8-bit tenths the byte 150 gives 15.00.
C15_AfrByConfiguredFormat ==
  Called("decode") =>
     LET b == At(hist.decIn.p, 10)
         w == At(hist.decIn.p, 10) + 256 * At(hist.decIn.p, 11)
     IN /\ setting_afrFmt = AFR_U16_x100 => ecu.afr = w
        /\ setting_afrFmt = AFR_U16_x10 => ecu.afr = 10 * w
        /\ setting_afrFmt = AFR_U8_div10 => ecu.afr = 10 * b
        /\ (setting_afrFmt = AFR_U8_div10 /\ b = 150) => ecu.afr = 1500

\* C15 witness: under 8-bit tenths the byte 150 was decoded to 15.00 although
\* the byte after it is not zero.
C15_Witness ==
  /\ Called("decode") /\ setting_afrFmt = AFR_U8_div10
  /\ At(hist.decIn.p, 10) = 150 /\ At(hist.decIn.p, 11) # 0 /\ ecu.afr = 1500

\* C16: after a decode every field of the snapshot is the stated function of
\* the payload just decoded (battery in tenths of a volt).
C16_SnapshotFromPayloadOnly ==
  Called("decode") =>
     LET p == hist.decIn.p IN
     /\ ecu.iatC = At(p, 6) - 40 /\ ecu.cltC = At(p, 7) - 40
     /\ ecu.vbat = At(p, 9)
     /\ ecu.tps = (At(p, 24) + 1) \div 2
     /\ ecu.advance = At(p, 23)
     /\ ecu.warmup = ((At(p, 2) \div 8) % 2 = 1)
     /\ ecu.launch = ((At(p, 31) % 2 = 1) \/ ((At(p, 31) \div 2) % 2 = 1))
     /\ ecu.lastUpdateMs = now

\* C16 witness: a second payload, different from the one decoded before it,
\* was decoded: throttle byte 1, warmup and launch bits clear while other
\* bits of their bytes are set.
C16_Witness ==
  /\ Called("decode") /\ hist.ticks = 2
  /\ hist.decPrev.len >= MIN_DECODE_LEN /\ hist.decPrev.p # hist.decIn.p
  /\ At(hist.decIn.p, 24) = 1 /\ ecu.tps = 1
  /\ At(hist.decIn.p, 2) = 247 /\ ~ecu.warmup
  /\ At(hist.decIn.p, 31) = 252 /\ ~ecu.launch

\* C17: the throttle value of the snapshot lies in 0..100.
C17_TpsInRange == ecu.tps >= 0 /\ ecu.tps <= 100

\* C11: after an update of the status bar, if no frame was decoded within the
\* last 700 ms the link indicator reads STALE.
C11_IndicatorFollowsDecode ==
  (Called("status.update") /\ Elapsed(now, ecu.lastUpdateMs) > LINK_STALE_MS) =>
     lblLink = "STALE"

\* the monitored fields, and whether a field's value is a float in the source
WarnIds == 0..(W_COUNT - 1)

\* check(field, value, range) of the claim; value and limits in hundredths
Check(cfg, id, v100) == cfg[id].enabled /\ (v100 < cfg[id].minV \/ v100 > cfg[id].maxV)

\* what the program's check returns for field id and a value given in
\* hundredths (a whole number of units for the integer fields)
WarnOf(cfg, id, v100) ==
  IF id \in {W_AFR, W_VBAT} THEN warnCheckFloat(cfg, id, v100)
  ELSE warnCheckInt(cfg, id, v100 \div 100)

\* values at, inside and outside the limits of field id
Probes(cfg, id) ==
  {cfg[id].minV, cfg[id].maxV, cfg[id].minV - 100, cfg[id].maxV + 100,
   cfg[id].minV + 100, cfg[id].maxV - 100}

C18_CheckValue ==
  \A id \in WarnIds :
    /\ \A v \in Probes(warnCfg, id) :
         /\ WarnOf(warnCfg, id, v) = Check(warnCfg, id, v)
         /\ ~warnCfg[id].enabled => ~WarnOf(warnCfg, id, v)
    /\ ~WarnOf(warnCfg, id, warnCfg[id].minV)
    /\ ~WarnOf(warnCfg, id, warnCfg[id].maxV)

C18_OtherRangesIgnored ==
  \A id \in WarnIds :
    (warnCfg'[id] = warnCfg[id]) =>
       \A v \in Probes(warnCfg, id) : WarnOf(warnCfg', id, v) = WarnOf(warnCfg, id, v)

\* C18: for each monitored field the check is enabled AND (value < min OR
\* value > max): false when the range is disabled, false at value == min and
\* value == max, and unchanged when only another field's range changes.
C18_ThresholdCheck == []C18_CheckValue /\ [][C18_OtherRangesIgnored]_vars

\* C18 witness: the intake-temperature range was disabled, a value above its
\* upper limit was decoded and its tile drawn without alarm; the other ranges
\* are the defaults.
C18_Witness ==
  /\ ~warnCfg[W_IAT].enabled /\ linkValid /\ 100 * ecu.iatC > warnCfg[W_IAT].maxV
  /\ Called("ui.update") /\ ~tiles["iat"].blank /\ tiles["iat"].val = ecu.iatC
  /\ ~tiles["iat"].warn
  /\ \A id \in WarnIds \ {W_IAT} : warnCfg[id] = defaultsWarn[id]

\* the value of each monitored field in hundredths, and its tile
FieldValue(id) ==
  CASE id = W_AFR -> ecu.afr
    [] id = W_VBAT -> 10 * ecu.vbat
    [] id = W_IAT -> 100 * ecu.iatC
    [] id = W_CLT -> 100 * ecu.cltC
    [] id = W_TPS -> 100 * ecu.tps
    [] OTHER -> 100 * ecu.advance

FieldTile(id) ==
  CASE id = W_AFR -> "afr" [] id = W_VBAT -> "vbat" [] id = W_IAT -> "iat"
    [] id = W_CLT -> "clt" [] id = W_TPS -> "tps" [] OTHER -> "adv"

\* C19: after a dashboard update with a valid link and the dashboard shown,
\* the alarm each monitored tile shows is check(field, current value,
\* current range).
C19_AlarmsRecomputed ==
  (Called("ui.update") /\ ~portalMode /\ linkValid /\ scr = "dash") =>
     \A id \in WarnIds :
        /\ ~tiles[FieldTile(id)].blank
        /\ tiles[FieldTile(id)].warn = Check(warnCfg, id, FieldValue(id))

\* the activation condition of the claim, on the current state
ShiftPredicate == setting_shiftEnabled /\ linkValid /\ ecu.rpm >= setting_shiftRpm

\* enter and exit signals alternate, starting with enter
C20_Alternate ==
  /\ hist.nEnter - hist.nExit = (IF shiftActive THEN 1 ELSE 0)
  /\ \A i, j \in 1..Len(ev) :
       (i < j /\ ev[i][1] \in {"shift.enter", "shift.exit"}
              /\ ev[j][1] \in {"shift.enter", "shift.exit"}) => ev[i][1] # ev[j][1]

\* C20 (as stated): after every tick in Normal mode the shift light is active
\* exactly when the activation condition holds, and enter and exit alternate.
C20_ShiftAfterEveryTick ==
  /\ (Called("ui.tick") /\ ~portalMode) => (shiftActive <=> ShiftPredicate)
  /\ C20_Alternate

C20_AfterUpdate ==
  /\ Called("ui.update") => (shiftActive <=> ShiftPredicate)
  /\ C20_Alternate

\* with threshold 6500 and the light enabled: an update that sees 7000 rpm
\* while idle signals enter once, one that sees 6000 rpm while alerting
\* signals exit once
C20_Scenario ==
  LET n(name) == Cardinality({i \in 1..Len(ev') : ev'[i][1] = name})
      seen == \E i \in 1..Len(ev') : ev'[i][1] = "ui.update"
      armed == setting_shiftEnabled' /\ setting_shiftRpm' = 6500 /\ linkValid'
  IN /\ (seen /\ armed /\ ~shiftActive /\ ecu'.rpm = 7000) =>
          (n("shift.enter") = 1 /\ n("shift.exit") = 0 /\ shiftActive')
     /\ (seen /\ armed /\ shiftActive /\ ecu'.rpm = 6000) =>
          (n("shift.exit") = 1 /\ n("shift.enter") = 0 /\ ~shiftActive')

\* C20 (amended): after every dashboard update (a tick in Normal mode while
\* the dashboard or the shift screen is shown) the shift light is active
\* exactly when shiftEnabled AND link valid AND rpm >= threshold; enter and
\* exit alternate starting with enter; 7000 then 6000 rpm under threshold
\* 6500 gives one enter, then one exit.
C20_ShiftAfterEveryUpdate == []C20_AfterUpdate /\ [][C20_Scenario]_vars

\* C20 witness: 7000 rpm then 6000 rpm were decoded and evaluated under
\* threshold 6500: one enter, then one exit in this step.
C20_Witness ==
  /\ hist.nEnter = 1 /\ hist.nExit = 1 /\ Called("shift.exit")
  /\ setting_shiftEnabled /\ setting_shiftRpm = 6500 /\ linkValid /\ ecu.rpm = 6000
  /\ hist.sent = 2 /\ hist.inputs = 0

\* C22: on every Idle -> Alerting edge the activation time is the current
\* time and the blink phase is on, whatever phase the previous alert left.
C22_EntryForcesBlinkOn ==
  Called("shift.enter") =>
     /\ shiftActive /\ shiftBlinkT0 = now /\ shiftBlinkOn
     /\ ~Called("shift.flip")

\* C22 witness: a second alert starts after the first one was left with the
\* blink phase off (one toggle since its activation).
C22_Witness ==
  /\ Called("shift.enter") /\ hist.nEnter = 2 /\ hist.nExit = 1 /\ hist.nFlip = 1
  /\ shiftActive /\ shiftBlinkOn

\* the payloads of the calls named name made by the last step
Payloads(name) == {ev[i][2] : i \in {j \in 1..Len(ev) : ev[j][1] = name}}

\* a toggle comes no earlier than 180 ms after the previous toggle or the
\* activation, and later than that by less than the time since the previous
\* evaluation of the dashboard
C21_ToggleSpacing ==
  \A e \in Payloads("shift.flip") :
     /\ e >= SHIFT_FLASH_MS
     /\ \A g \in Payloads("ui.update") : e < SHIFT_FLASH_MS + g

\* C21 (as stated): while Alerting the blink phase toggles every 180 ms, at
\* most one UI tick late, until rpm drops below the threshold, the link
\* becomes invalid or the shift light is disabled.
C21_BlinkUntilCleared ==
  /\ C21_ToggleSpacing
  /\ (shiftActive /\ ShiftPredicate) =>
        Elapsed(now, shiftBlinkT0) < SHIFT_FLASH_MS + MaxUiGap

\* C21 (amended): the same while the mode is Normal; in Portal mode the shift
\* light is not evaluated and the blink phase does not toggle.
C21_BlinkWhileNormal ==
  /\ C21_ToggleSpacing
  /\ (~portalMode /\ shiftActive /\ ShiftPredicate) =>
        Elapsed(now, shiftBlinkT0) < SHIFT_FLASH_MS + MaxUiGap
  /\ (portalMode /\ Called("serial.end") = FALSE) => ~Called("shift.flip")

\* C21 witness: the second toggle of an alert, later than 180 ms after the
\* first because the evaluations did not fall on a multiple of 180 ms.
C21_Witness ==
  /\ ~portalMode /\ shiftActive /\ hist.nFlip >= 2
  /\ \E e \in Payloads("shift.flip") : e > SHIFT_FLASH_MS

C28_SampleSpacing ==
  /\ Count([i \in 1..Len(ev) |-> ev[i][1]], "wifi.sample") <= 1
  /\ \A g \in Payloads("wifi.sample") : g >= WIFI_CLIENT_CHECK_MS
  /\ Called("wifi.sample") => (portalMode <=> staCount > 0)

C28_ModeChangesAtSample ==
  LET sampled == \E i \in 1..Len(ev') : ev'[i][1] = "wifi.sample" IN
  /\ (portalMode' # portalMode) => sampled
  /\ (sampled /\ hist.peak > 0 /\ staCount = 0 /\ ~portalMode) => ~portalMode'

\* C28: the station count is sampled at most once per 250 ms; the mode
\* changes only in a pass that samples, to Portal iff the sampled count is
\* above 0; a station that came and went between two samples changes nothing.
C28_SampledModeChange == []C28_SampleSpacing /\ [][C28_ModeChangesAtSample]_vars

\* C28 witness: a sample in Normal mode finds no station although one was
\* connected since the previous sample; the mode stays Normal.
C28_Witness ==
  /\ Called("wifi.sample") /\ hist.nSamples >= 2
  /\ hist.peakAtSample > 0 /\ staCount = 0 /\ ~portalMode
  /\ hist.nEnd = 0

C23_PortalPass ==
  portalMode =>
    /\ \A i \in 1..Len(ev') : ev'[i][1] \notin {"serial.write", "payload.write", "frame",
                                                "decode", "ui.tick", "ui.update",
                                                "shift.enter", "shift.flip", "shift.exit",
                                                "sd.open", "log.println"}
    /\ UNCHANGED <<ecu, shiftActive, shiftBlinkT0, shiftBlinkOn, logFile, sdFiles,
                   lastPoll, payload, rxBytes, recording>>
    /\ portalMode' => UNCHANGED <<serialBuf, rxState, rxLen, rxCount, linkValid, lastRxMs>>

\* C23: a pass of the loop that starts in Portal mode consumes no serial
\* byte, writes no poll request and leaves the snapshot, the shift light and
\* the log file as they were; if the mode stays Portal the receiver state and
\* the link-valid flag are unchanged too. The shift light is evaluated only
\* in passes that start in Normal mode.
C23_PortalTouchesNothing == [][C23_PortalPass]_vars

\* C23 witness: a pass has run in Portal mode since the portal was entered
\* in the middle of a frame.
C23_Witness ==
  /\ portalMode /\ Elapsed(now, lastWifiClientCheckMs) > 0
  /\ rxState = READ_PAYLOAD /\ rxCount > 0

\* C27 (as stated): after a Normal -> Portal -> Normal round trip the mode is
\* Normal, the data source runs, the presentation is not suspended and the
\* recording is active exactly if it was before the round trip.
C27_RoundTripRestores ==
  Called("serial.begin") =>
     /\ ~portalMode /\ serialOn /\ ~uiPaused
     /\ recording = hist.recAtEntry

\* C27 (amended): after the round trip the mode is Normal, the data source
\* runs and the presentation is not suspended; no recording is active,
\* whether or not one was before.
C27_RoundTripStopsRecording ==
  Called("serial.begin") =>
     /\ ~portalMode /\ serialOn /\ ~uiPaused
     /\ ~recording /\ logFile = 0

\* C27 witness: the return to Normal after a portal visit that stopped a
\* recording.
C27_Witness ==
  /\ Called("serial.begin") /\ hist.recAtEntry /\ ~recording /\ ~portalMode

\* C30: a /rec request made while no recording is active, with the card
\* present and logging enabled, starts a recording; one made while a
\* recording is active stops it.
C30_WebRecToggles ==
  /\ 1 \in Payloads("web.rec") => Called("sd.open")
  /\ 2 \in Payloads("web.rec") => Called("log.close")

\* the first of the refusals a call that found flags f answers with, 0 when
\* it must go ahead; n is the number of refusals taken into account
FirstRefusal(f, n) ==
  LET hit == {k \in 1..n : (f \div (2^(k - 1))) % 2 = 1}
  IN IF hit = {} THEN 0 ELSE CHOOSE k \in hit : \A j \in hit : k <= j

\* every call of startRecording in the last step answered as the first n
\* refusals prescribe
StartsAnswered(n) ==
  \A i \in 1..Len(ev) :
     ev[i][1] = "start.try" =>
        LET r == FirstRefusal(ev[i][2], n) IN
        /\ i < Len(ev)
        /\ IF r = 0 THEN ev[i + 1][1] = "sd.open"
           ELSE \E j \in (i + 1)..Len(ev) :
                   /\ ev[j] = <<"start.refused", r>>
                   /\ \A k \in (i + 1)..(j - 1) : ev[k][1] = "sd.openFailed"

\* a step in which a start was refused, none succeeded and nothing was
\* stopped leaves the recording flag, the log file, the files on the card
\* and the session counter as they were
C24_RefusalStep ==
  LET did(name) == \E i \in 1..Len(ev') : ev'[i][1] = name IN
  (did("start.refused") /\ ~did("start.ok") /\ ~did("log.close")) =>
     UNCHANGED <<recording, logFile, sdFiles, setting_logIndex, prefs>>

\* C24 (as stated): a start is refused for the first of the four reasons
\* that applies, returned as a value, with the recording flag, the log file
\* and the session counter unchanged; a start that meets none succeeds.
C24_FourRefusals == StartsAnswered(4)

C24_Answers == StartsAnswered(5)

\* C24 (amended): there is a fifth refusal, checked last: the log file
\* cannot be opened. A start that meets none of the five succeeds.
C24_FiveRefusals == []C24_Answers /\ [][C24_RefusalStep]_vars

\* C24 witness: the REC button was pressed while the card refuses a new
\* file; the start was refused after the four checks had passed.
C24_Witness ==
  /\ 16 \in Payloads("start.try") /\ 5 \in Payloads("start.refused")
  /\ ~recording /\ logFile = 0 /\ setting_logEnabled /\ sdOk

\* C25 (as stated): a row is appended only when recording AND card present
\* AND handler not busy AND file open, and never less than 100 ms after the
\* previous row.
C25_RowsGated ==
  /\ \A f \in Payloads("log.row") : f = 15
  /\ \A g \in Payloads("log.gap") : g = -1 \/ g >= LOG_INTERVAL_MS

\* rows are written only by logIfRecording, and only with the gate open
C25_RowStep ==
  \A idx \in DOMAIN sdFiles :
     (idx \in DOMAIN sdFiles' /\ sdFiles'[idx] > sdFiles[idx]) =>
        /\ sdFiles'[idx] = sdFiles[idx] + 1
        /\ \E i \in 1..Len(ev') : ev'[i] = <<"log.row", 15>>
        /\ ~portalMode

C25_Rows ==
  /\ \A f \in Payloads("log.row") : f = 15
  /\ \A g \in Payloads("log.gapSession") : g = -1 \/ g >= LOG_INTERVAL_MS
  /\ Cardinality({i \in 1..Len(ev) : ev[i][1] = "log.row"}) <= 1

\* C25 (amended): the 100 ms spacing holds between the rows of one
\* recording; the first row of a recording is written at once, however
\* recent the last row of the previous recording.
C25_RowsGatedPerSession == []C25_Rows /\ [][C25_RowStep]_vars

\* C25 witness: a row of a recording that already has one, written 100 ms or
\* more after it.
C25_Witness ==
  /\ Called("log.row") /\ recording
  /\ \E g \in Payloads("log.gapSession") : g >= LOG_INTERVAL_MS
  /\ Lines(sdFiles, logFile) >= 3

C26_Sessions ==
  /\ \A i, j \in 1..Len(hist.sessions) : i < j => hist.sessions[i] < hist.sessions[j]
  /\ \A n \in Payloads("start.ok") : setting_logIndex = n + 1 /\ prefs.logIdx = n + 1
  /\ \A n \in Payloads("sd.open") : n \in Payloads("start.ok")
  /\ setting_logIndex = prefs.logIdx

C26_CounterStep ==
  LET ok == {ev'[i][2] : i \in {j \in 1..Len(ev') : ev'[j][1] = "start.ok"}} IN
  /\ ok = {} => setting_logIndex' = setting_logIndex
  /\ \A n \in ok : n = setting_logIndex /\ setting_logIndex' = n + 1

\* C26: every successful start names its file from the counter as it was,
\* advances the counter by one and persists it; a refused start and a
\* restart leave the counter alone; so the session numbers of successive
\* starts strictly increase.
C26_SessionNumbersIncrease == []C26_Sessions /\ [][C26_CounterStep]_vars

\* C26 witness: the second successful start, after a refused one and a
\* restart.
C26_Witness ==
  /\ Len(hist.sessions) = 2 /\ Called("start.ok") /\ hist.boots = 1 /\ hist.nRefused = 1
  /\ hist.sessions[2] = hist.sessions[1] + 1

\* millis() now, hist.elapsed after the stored reading
ClockNow == Add32(hist.stored, hist.elapsed)

ClockWrapped == ClockNow[1] < hist.stored[1]

C38_RowsOnlyWhenValid == \A v \in Payloads("log.link") : v = 1

\* C36: while the shift alert is active the overlay is painted red exactly
\* when the blink phase is on, and in the background colour exactly when it
\* is off.
C36_OverlayMatchesPhase ==
  shiftActive => (shiftBg = IF shiftBlinkOn THEN C_RED ELSE C_BG)

\* the request of this pass found a recording active
ReadWhileRecording == 1 \in (Payloads("web.latest") \cup Payloads("web.download"))

\* C31: a /download or /downloadLatest request served while a recording is
\* active is answered 409 and reads no file, and a /logs request served
\* while a recording is active does not walk the card; whenever a file is
\* read or the card is listed, no recording was active.
C31_NoReadWhileRecording ==
  /\ ReadWhileRecording => (Payloads("web.send") = {409} /\ ~Called("sd.read"))
  /\ 1 \in Payloads("web.logs") => ~Called("sd.list")
  /\ Called("sd.read") =>
       (Payloads("web.latest") \cup Payloads("web.download") = {0} /\ ~recording /\ logFile = 0)
  /\ Called("sd.list") => (Payloads("web.logs") = {0} /\ ~recording /\ logFile = 0)

\* C31 witness: the file of the running recording was asked for by
\* /download and the answer was 409.
C31_Witness ==
  /\ recording /\ logFile = 1 /\ Lines(sdFiles, 1) >= 1
  /\ Payloads("web.download") = {1} /\ Payloads("web.send") = {409}

\* C32: a /downloadLatest request that finds the card and no recording
\* streams the file of the most recently started recording, which is the
\* file numbered logIndex - 1, or answers "No logs yet" when no recording
\* was ever started; it says "No logs yet" in no other case.
C32_LatestIsLastStarted ==
  /\ (Payloads("web.latest") = {0} /\ sdOk) =>
        IF hist.latest = 0
          THEN Called("web.nologs") /\ ~Called("sd.read")
          ELSE /\ Payloads("sd.read") = {hist.latest} /\ Payloads("web.send") = {200}
               /\ hist.latest = setting_logIndex - 1
               /\ ~Called("web.nologs")
  /\ Called("web.nologs") => (hist.latest = 0 /\ Lines(sdFiles, 1) = -1)

\* C32 witness: session 2 was started and stopped after session 1, and
\* /downloadLatest streamed the file of session 2.
C32_Witness ==
  /\ hist.latest = 2 /\ Lines(sdFiles, 1) >= 1 /\ Lines(sdFiles, 2) >= 1
  /\ Payloads("web.latest") = {0} /\ Payloads("sd.read") = {2}

\* the i-th call of the pass is a start of a recording asked for by the REC
\* button: it comes before the request of the pass is served
TouchStart(i) ==
  /\ ev[i][1] = "start.try"
  /\ \A j \in 1..(i - 1) : ev[j][1] # "web.rec"

OtherKeys == {"logEn", "afrFmt", "logIdx", "shEn", "shRpm", "view"}

\* C33: a reset of the warnings to defaults sets all six ranges in memory
\* and in the preferences to the built-in defaults and leaves every other
\* stored setting as it was, whatever was edited in memory and not saved.
C33_ResetStep ==
  (\E i \in 1..Len(ev') : ev'[i][1] = "prefs.putWarn") =>
     /\ warnCfg' = defaultsWarn /\ prefs'.warn = defaultsWarn
     /\ \A k \in OtherKeys : prefs'[k] = prefs[k]

C33_ResetPersistsOnlyWarnings == [][C33_ResetStep]_vars

\* C33 witness: the warnings were reset while the shift enable, the shift
\* threshold and the view edited on the settings screen differed from the
\* stored ones.
C33_Witness ==
  /\ Called("prefs.putWarn") /\ warnCfg = defaultsWarn
  /\ setting_shiftEnabled # prefs.shEn /\ setting_shiftRpm # prefs.shRpm
  /\ setting_viewMode # prefs.view

\* C34: a start of a recording leaves every stored setting other than the
\* session counter as it was.
C34_StartStep ==
  (\E i \in 1..Len(ev') : ev'[i][1] = "start.ok") =>
     \A k \in (OtherKeys \ {"logIdx"}) \cup {"warn"} : prefs'[k] = prefs[k]

C34_StartPersistsOnlyCounter == [][C34_StartStep]_vars

\* C39: the range of every warning has min <= max.
C39_RangesOrdered ==
  \A i \in DOMAIN warnCfg : FLe(warnCfg[i].minV, warnCfg[i].maxV)

\* C40: the shift threshold lies in 0..RPM_MAX.
C40_ShiftRpmInRange == setting_shiftRpm \in 0..RPM_MAX

\* C40 witness: the threshold stored 50 below the limit was stepped up on
\* the settings screen and stands at the limit.
C40_Witness ==
  /\ scr = "settings" /\ settingsRow = ROW_SHIFT
  /\ prefs.shRpm = RPM_MAX - 50 /\ setting_shiftRpm = RPM_MAX

\* C35: in Normal mode a poll request is written again and again, whatever
\* the ECU sent before it fell silent.
C35_PollEventually == []<>Called("serial.write")
====
